---- MODULE Spec2Model ----
(***************************************************************************)
(* Verification model of sense-on: the attention classifier               *)
(* (composables/useAttention.ts), the per-observation classification      *)
(* (core/attention.ts) and the One Euro filter feeding it                  *)
(* (core/filter.ts).                                                       *)
(*                                                                         *)
(* Numbers.  The program computes on IEEE doubles; the model computes on   *)
(* integers in fixed point.  Angles (degrees) and the eye aspect ratio are *)
(* held in units of 1/Scale, landmark coordinates in units of             *)
(* 1/LandmarkScale.  Timestamps and durations are whole milliseconds, as   *)
(* performance.now() hands them to detect().  pi is PiNum / PiDen.         *)
(***************************************************************************)
EXTENDS Integers, Sequences, FiniteSets, TLC

\* ------------------------------------------------------------------ bounds
\* Fixed-point resolution of angles and ratios: one unit is 1/Scale.
Scale == 100
\* Fixed-point resolution of landmark coordinates (normalised image space).
LandmarkScale == 1000
\* Distance between two timestamps of the input grid, in ms.
TickMs == 250
\* Timestamps are TickMs * 1 .. TickMs * MaxTick, and one late timestamp.
MaxTick == 3
\* processResult is not called again once totalMs has passed this value.
MaxTotalMs == 500
\* processResult is not called again once this many distractions are counted.
MaxDistractions == 2
\* reset() reads the clock as one of TickMs * 1 .. TickMs * MaxClock.
MaxClock == 1
\* Distance between two timestamps handed to a filter on its own, in ms.
FilterTickMs == 16
\* Those timestamps are FilterTickMs * 0 .. FilterTickMs * MaxFilterTick.
MaxFilterTick == 3
\* Fixed-point resolution of gaze ratios: one unit is 1/GazeScale.
GazeScale == 2
\* The point filters are fed timestamps up to MaxPointTick ticks, and at most
\* MaxPointCalls points between creation or reset() and the next reset().
MaxPointTick == 2
MaxPointCalls == 3
MaxApplies == 3
\* detect() is called with at most this many frames, the worker raises at most
\* MaxWorkerErrors error events, and a worker on its own is sent at most
\* MaxWorkerMsgs messages.
MaxFrames == 3
MaxWorkerErrors == 1
MaxWorkerMsgs == 4
\* A camera stream is started at most MaxStarts times, its video shows frames
\* 0 .. MaxVideoTime, and it is followed while at most MaxLoops frame-loop
\* iterations are scheduled or running.
MaxStarts == 2
MaxVideoTime == 2
MaxLoops == 3
\* start() of useTracker is called at most this many times while not running.
MaxTrackerStarts == 2
\* The gaze grid overlay is followed on a clock of DwellTickMs steps up to
\* DwellTickMs * MaxDwellTicks.
DwellTickMs == 50
MaxDwellTicks == 9
\* computeAffineTransform is given at most this many samples.
MaxAffineSamples == 3
\* Fixed-point resolution of standardised features, of the entries of the
\* normal equations and of the fitted coefficients: one unit is 1/FeatureScale.
FeatureScale == 100
\* computeGazeTransform is given at most this many samples of two features.
MaxGazeSamples == 4
\* A calibration session is followed for at most this many validation rounds
\* that count, and at most this many of them miss.
MaxRounds == 10
MaxMisses == 1

\* ------------------------------------------------------- program constants
DEBOUNCE_MS == 300
DROWSY_HOLD_MS == 2000
YAW_THRESHOLD == 25
PITCH_THRESHOLD == 20
\* 0.2 in units of 1/Scale
EAR_CLOSED == Scale \div 5
LANDMARK_COUNT == 478
\* dt < 1000 in processResult
DT_CEILING_MS == 1000

LEFT_EYE_TOP == 159
LEFT_EYE_BOTTOM == 145
LEFT_EYE_INNER == 133
LEFT_EYE_OUTER == 33
RIGHT_EYE_TOP == 386
RIGHT_EYE_BOTTOM == 374
RIGHT_EYE_INNER == 362
RIGHT_EYE_OUTER == 263

PiNum == 355
PiDen == 113

\* null for pendingState and for a state not yet computed
None == "none"
\* undefined for the optional fields of TrackingResult
Undefined == [undefined |-> TRUE]
\* null where a record or an array is expected
Null == [null |-> TRUE]

Abs(x) == IF x < 0 THEN -x ELSE x

\* n / d rounded to the nearest integer (d > 0), halves away from -infinity
RoundDiv(n, d) == (2 * n + d) \div (2 * d)

\* ---------------------------------------------------------- core/filter.ts
\* alpha = 1 / (1 + tau / te), tau = 1 / (2 pi cutoff).  With cutoff in units
\* of 1/Scale this is N / (N + D) for N = 2 PiNum cutoff te, D = PiDen Scale.
\* The factor is kept as the exact fraction [num, den].
smoothingFactor(te, cutoff) ==
  LET N == 2 * PiNum * cutoff * te
      D == PiDen * Scale
  IN [num |-> N, den |-> N + D]

\* Mutant: the previous value is weighted with the wrong sign.
exponentialSmoothingOvershoots(alpha, current, previous) ==
  current + RoundDiv((alpha.den - alpha.num) * (current - previous), alpha.den)

\* Mutant: the weight of the previous value is dropped.
exponentialSmoothingForgets(alpha, current, previous) ==
  current - RoundDiv((alpha.den - alpha.num) * current, alpha.den)

\* alpha * current + (1 - alpha) * previous, rounded to the fixed-point grid.
\* Written as current - (1 - alpha) * (current - previous), the same value,
\* so that the products stay inside TLC's integers.
exponentialSmoothing(alpha, current, previous) ==
  current - RoundDiv((alpha.den - alpha.num) * (current - previous), alpha.den)

\* createOneEuroFilter: options in fixed point; beta is the fraction
\* betaNum / betaDen.
YawPitchOptions == [minCutoff |-> Scale, betaNum |-> 3, betaDen |-> 10, dCutoff |-> Scale]

NewFilter == [lastTime |-> -1, lastValue |-> 0, lastDx |-> 0]

\* Mutant: the first call is smoothed against the initial lastValue like any
\* other call.
OneEuroFilterNoPassthrough(opts, f, value, timestamp) ==
  LET te == timestamp - f.lastTime IN
  IF te <= 0
  THEN <<f.lastValue, f>>
  ELSE LET dx == RoundDiv(value - f.lastValue, te)
           edx == exponentialSmoothing(smoothingFactor(te, opts.dCutoff), dx, f.lastDx)
           cutoff == opts.minCutoff + RoundDiv(opts.betaNum * Abs(edx), opts.betaDen)
           result == exponentialSmoothing(smoothingFactor(te, cutoff), value, f.lastValue)
       IN <<result, [lastTime |-> timestamp, lastValue |-> result, lastDx |-> edx]>>

\* Mutant: a call that does not advance the time takes the new value over.
OneEuroFilterStaleOverwrites(opts, f, value, timestamp) ==
  IF f.lastTime < 0
  THEN <<value, [lastTime |-> timestamp, lastValue |-> value, lastDx |-> 0]>>
  ELSE LET te == timestamp - f.lastTime IN
       IF te <= 0
       THEN <<value, [f EXCEPT !.lastValue = value]>>
       ELSE LET dx == RoundDiv(value - f.lastValue, te)
                edx == exponentialSmoothing(smoothingFactor(te, opts.dCutoff), dx, f.lastDx)
                cutoff == opts.minCutoff + RoundDiv(opts.betaNum * Abs(edx), opts.betaDen)
                result == exponentialSmoothing(smoothingFactor(te, cutoff), value, f.lastValue)
            IN <<result, [lastTime |-> timestamp, lastValue |-> result, lastDx |-> edx]>>

\* filter(value, timestamp): the pair <<returned value, filter state after>>
OneEuroFilter(opts, f, value, timestamp) ==
  IF f.lastTime < 0
  THEN <<value, [lastTime |-> timestamp, lastValue |-> value, lastDx |-> 0]>>
  ELSE LET te == timestamp - f.lastTime IN
       IF te <= 0
       THEN <<f.lastValue, f>>
       ELSE LET dx == RoundDiv(value - f.lastValue, te)
                edx == exponentialSmoothing(smoothingFactor(te, opts.dCutoff), dx, f.lastDx)
                cutoff == opts.minCutoff + RoundDiv(opts.betaNum * Abs(edx), opts.betaDen)
                result == exponentialSmoothing(smoothingFactor(te, cutoff), value, f.lastValue)
            IN <<result, [lastTime |-> timestamp, lastValue |-> result, lastDx |-> edx]>>

FilterReset == NewFilter

\* Mutant: the two axes go through one filter instance.
PointFilterSharedInstance(opts, pf, point, timestamp) ==
  LET rx == OneEuroFilter(opts, pf.x, point.x, timestamp)
      ry == OneEuroFilter(opts, rx[2], point.y, timestamp)
  IN <<[x |-> rx[1], y |-> ry[1]], [x |-> ry[2], y |-> ry[2]]>>

\* createPointFilter().filter(point, timestamp): the pair <<returned point,
\* the states of xFilter and yFilter after>>
PointFilter(opts, pf, point, timestamp) ==
  LET rx == OneEuroFilter(opts, pf.x, point.x, timestamp)
      ry == OneEuroFilter(opts, pf.y, point.y, timestamp)
  IN <<[x |-> rx[1], y |-> ry[1]], [x |-> rx[2], y |-> ry[2]]>>

\* createPointFilter().reset()
PointFilterReset == [x |-> FilterReset, y |-> FilterReset]

\* ------------------------------------------------------- core/attention.ts
RECURSIVE SqrtSearch(_, _, _)
\* largest r in lo..hi with r * r <= n
SqrtSearch(n, lo, hi) ==
  IF lo >= hi THEN lo
  ELSE LET mid == (lo + hi + 1) \div 2 IN
       IF mid * mid <= n THEN SqrtSearch(n, mid, hi) ELSE SqrtSearch(n, lo, mid - 1)

\* Math.hypot(dx, dy) on the fixed-point grid
Hypot(dx, dy) ==
  IF dy = 0 THEN Abs(dx)
  ELSE IF dx = 0 THEN Abs(dy)
  ELSE SqrtSearch(dx * dx + dy * dy, 0, Abs(dx) + Abs(dy))

dist(a, b) == Hypot(a.x - b.x, a.y - b.y)

\* A landmark array is [len, pt]: its length and the eight eyelid / eye-corner
\* entries computeEAR reads (the other entries are not read by the classifier).
\* width > 0.001 on the landmark grid
WidthOk(w) == 1000 * w > LandmarkScale

computeEAR(landmarks) ==
  IF landmarks.len < LANDMARK_COUNT THEN Scale
  ELSE LET lWidth == dist(landmarks.pt[LEFT_EYE_INNER], landmarks.pt[LEFT_EYE_OUTER])
           leftEAR == IF WidthOk(lWidth)
                      THEN RoundDiv(Scale * dist(landmarks.pt[LEFT_EYE_TOP], landmarks.pt[LEFT_EYE_BOTTOM]), lWidth)
                      ELSE Scale
           rWidth == dist(landmarks.pt[RIGHT_EYE_INNER], landmarks.pt[RIGHT_EYE_OUTER])
           rightEAR == IF WidthOk(rWidth)
                       THEN RoundDiv(Scale * dist(landmarks.pt[RIGHT_EYE_TOP], landmarks.pt[RIGHT_EYE_BOTTOM]), rWidth)
                       ELSE Scale
       IN (leftEAR + rightEAR) \div 2

\* Mutant: an empty landmark array counts as a face.
FacePresentIgnoringLength(result) ==
  /\ result.faceCenter # Undefined
  /\ result.landmarks # Undefined

\* !!result.faceCenter && !!result.landmarks?.length
FacePresentOf(result) ==
  /\ result.faceCenter # Undefined
  /\ result.landmarks # Undefined
  /\ result.landmarks.len # 0

AbsentResult ==
  [state |-> "absent", headYaw |-> 0, headPitch |-> 0, eyeOpenness |-> 0, facePresent |-> FALSE]

\* Mutant: closed eyes are tested before the head pose.
computeAttentionDrowsyFirst(result) ==
  IF ~FacePresentOf(result) THEN AbsentResult
  ELSE LET yaw == IF result.headPose = Undefined THEN 0 ELSE result.headPose.yaw
           pitch == IF result.headPose = Undefined THEN 0 ELSE result.headPose.pitch
           ear == IF result.landmarks # Undefined THEN computeEAR(result.landmarks) ELSE Scale
           lookingAway == Abs(yaw) > YAW_THRESHOLD * Scale \/ Abs(pitch) > PITCH_THRESHOLD * Scale
       IN [state |-> IF ear < EAR_CLOSED THEN "drowsy"
                     ELSE IF lookingAway THEN "looking_away"
                     ELSE "attentive",
           headYaw |-> yaw, headPitch |-> pitch, eyeOpenness |-> ear, facePresent |-> TRUE]

computeAttention(result) ==
  IF ~FacePresentOf(result) THEN AbsentResult
  ELSE LET yaw == IF result.headPose = Undefined THEN 0 ELSE result.headPose.yaw
           pitch == IF result.headPose = Undefined THEN 0 ELSE result.headPose.pitch
           ear == IF result.landmarks # Undefined THEN computeEAR(result.landmarks) ELSE Scale
           lookingAway == Abs(yaw) > YAW_THRESHOLD * Scale \/ Abs(pitch) > PITCH_THRESHOLD * Scale
       IN [state |-> IF lookingAway THEN "looking_away"
                     ELSE IF ear < EAR_CLOSED THEN "drowsy"
                     ELSE "attentive",
           headYaw |-> yaw, headPitch |-> pitch, eyeOpenness |-> ear, facePresent |-> TRUE]


\* ------------------------------------------------- composables/useAttention.ts
VARIABLES
  state,             \* state.value: the committed attention state
  raw,               \* raw.value: the last AttentionResult
  attentiveMs,       \* attentiveMs.value
  totalMs,           \* totalMs.value
  distractionCount,  \* distractionCount.value
  currentStreakMs,   \* currentStreakMs.value
  sessionStart,      \* sessionStart.value
  lastTimestamp,
  pendingState,
  pendingAt,
  eyeClosedSince,
  yawFilter,
  pitchFilter,
  data,              \* the argument of the last processResult call (Undefined before)
  lastOp,            \* the last operation called
  candRun,           \* history: the current run of observations with one candidate
  rawRun,            \* history: the current run of observations with one raw.state
  seenTs             \* history: the least and greatest data.timestamp since reset()

attentionVars ==
  <<state, raw, attentiveMs, totalMs, distractionCount, currentStreakMs,
    sessionStart, lastTimestamp, pendingState, pendingAt, eyeClosedSince,
    yawFilter, pitchFilter, data, lastOp, candRun, rawRun, seenTs>>

AttentionStates == {"attentive", "looking_away", "drowsy", "absent"}

\* ---- inputs
\* data.timestamp: performance.now() readings as handed to detect(), > 0, on a
\* grid of TickMs; neither ordered nor distinct.
\* The last one comes a whole accounting ceiling after the grid (a resumed page).
Timestamps == {TickMs * k : k \in 1..MaxTick} \cup {TickMs * MaxTick + DT_CEILING_MS}

\* performance.now() as read by reset()
ClockReadings == {TickMs * k : k \in 1..MaxClock}

Pt(x, y) == [x |-> x, y |-> y]

\* Eye landmarks as in makeLandmarks of attention.test.ts: corners 0.10 apart
\* on the line y = 0.40, the lids `gap` above and below it.
Coord(hundredths) == (hundredths * LandmarkScale) \div 100

EyePoints(gap) ==
  (LEFT_EYE_OUTER :> Pt(Coord(35), Coord(40))) @@
  (LEFT_EYE_INNER :> Pt(Coord(45), Coord(40))) @@
  (LEFT_EYE_TOP :> Pt(Coord(40), Coord(40) - gap)) @@
  (LEFT_EYE_BOTTOM :> Pt(Coord(40), Coord(40) + gap)) @@
  (RIGHT_EYE_OUTER :> Pt(Coord(55), Coord(40))) @@
  (RIGHT_EYE_INNER :> Pt(Coord(65), Coord(40))) @@
  (RIGHT_EYE_TOP :> Pt(Coord(60), Coord(40) - gap)) @@
  (RIGHT_EYE_BOTTOM :> Pt(Coord(60), Coord(40) + gap))

\* lids 0.06 apart (open) and 0.002 apart (closed)
LmOpen == [len |-> LANDMARK_COUNT, pt |-> EyePoints(Coord(3))]
LmClosed == [len |-> LANDMARK_COUNT, pt |-> EyePoints(LandmarkScale \div 1000)]
LmEmpty == [len |-> 0, pt |-> EyePoints(0)]

FaceCenter == Pt(LandmarkScale \div 2, LandmarkScale \div 2)

Front == [yaw |-> 0, pitch |-> 0, roll |-> 0]
\* yaw beyond its threshold
Turned == [yaw |-> -(YAW_THRESHOLD + 1) * Scale, pitch |-> 0, roll |-> 0]
\* yaw on its threshold, pitch beyond its threshold
Nodding == [yaw |-> YAW_THRESHOLD * Scale, pitch |-> (PITCH_THRESHOLD + 1) * Scale, roll |-> 0]

Kind(fc, hp, lm) == [faceCenter |-> fc, headPose |-> hp, landmarks |-> lm]

\* What a tracking result can carry besides its timestamp: the three ways of
\* having no face, and a face with each head pose and eye opening.
ObservationKinds ==
  {Kind(Undefined, Undefined, Undefined),
   Kind(FaceCenter, Front, LmEmpty),
   Kind(Undefined, Turned, LmClosed),
   Kind(FaceCenter, Undefined, LmOpen),
   Kind(FaceCenter, Front, LmOpen),
   Kind(FaceCenter, Front, LmClosed),
   Kind(FaceCenter, Turned, LmOpen),
   Kind(FaceCenter, Turned, LmClosed),
   Kind(FaceCenter, Nodding, LmClosed)}

Observation(k, t) ==
  [faceCenter |-> k.faceCenter, headPose |-> k.headPose, landmarks |-> k.landmarks,
   timestamp |-> t]

TrackingResults == {Observation(k, t) : k \in ObservationKinds, t \in Timestamps}

\* ---- history of the observation sequence (not program state)
NoRun == [of |-> None, minTs |-> 0, mono |-> TRUE]
NoRawRun == [of |-> None, minTs |-> 0]

\* the run of consecutive observations, since the last reset, that share `v`
ExtendRun(run, v, now, last) ==
  IF run.of = v
  THEN [of |-> v,
        minTs |-> IF now < run.minTs THEN now ELSE run.minTs,
        mono |-> run.mono /\ now > last]
  ELSE [of |-> v, minTs |-> now, mono |-> TRUE]

\* the same for raw.state, without the order of the timestamps
ExtendRawRun(run, v, now) ==
  IF run.of = v
  THEN [of |-> v, minTs |-> IF now < run.minTs THEN now ELSE run.minTs]
  ELSE [of |-> v, minTs |-> now]

\* No observation since reset().
NoneSeen == [any |-> FALSE, min |-> 0, max |-> 0]

\* The least and greatest timestamp once the observation at `now` is in.
SeenWith(seen, now) ==
  IF seen.any
  THEN [any |-> TRUE,
        min |-> IF now < seen.min THEN now ELSE seen.min,
        max |-> IF now > seen.max THEN now ELSE seen.max]
  ELSE [any |-> TRUE, min |-> now, max |-> now]

AttentionInit ==
  /\ seenTs = NoneSeen
  /\ state = "absent"
  /\ raw = AbsentResult
  /\ attentiveMs = 0
  /\ totalMs = 0
  /\ distractionCount = 0
  /\ currentStreakMs = 0
  /\ sessionStart = 0
  /\ lastTimestamp = 0
  /\ pendingState = None
  /\ pendingAt = 0
  /\ eyeClosedSince = 0
  /\ yawFilter = NewFilter
  /\ pitchFilter = NewFilter
  /\ data = Undefined
  /\ lastOp = "init"
  /\ candRun = NoRun
  /\ rawRun = NoRawRun

\* Mutant: open eyes do not clear eyeClosedSince.
DrowsyHoldKeepsSince(resultState, closedSince, now) ==
  IF resultState = "drowsy"
  THEN LET since == IF closedSince = 0 THEN now ELSE closedSince IN
       <<IF now - since < DROWSY_HOLD_MS THEN "attentive" ELSE "drowsy", since>>
  ELSE <<resultState, closedSince>>

\* Mutant: an observation without a face leaves eyeClosedSince as it is.
DrowsyHoldAbsenceKeepsSince(resultState, closedSince, now) ==
  IF resultState = "drowsy"
  THEN LET since == IF closedSince = 0 THEN now ELSE closedSince IN
       <<IF now - since < DROWSY_HOLD_MS THEN "attentive" ELSE "drowsy", since>>
  ELSE <<resultState, IF resultState = "absent" THEN closedSince ELSE 0>>

\* lines 58-64: the drowsy hold.  <<candidate, eyeClosedSince after>>
DrowsyHold(resultState, closedSince, now) ==
  IF resultState = "drowsy"
  THEN LET since == IF closedSince = 0 THEN now ELSE closedSince IN
       <<IF now - since < DROWSY_HOLD_MS THEN "attentive" ELSE "drowsy", since>>
  ELSE <<resultState, 0>>

\* Mutant: the second observation of a candidate commits it, whatever the time.
DebounceNoWindow(cand, committed, pending, pendAt, now) ==
  IF cand # committed
  THEN IF pending # cand
       THEN [state |-> committed, pendingState |-> cand, pendingAt |-> now, commit |-> FALSE]
       ELSE [state |-> cand, pendingState |-> None, pendingAt |-> pendAt, commit |-> TRUE]
  ELSE [state |-> committed, pendingState |-> None, pendingAt |-> pendAt, commit |-> FALSE]

\* Mutant: every observation of a waiting candidate restarts its window.
DebounceRestartsWindow(cand, committed, pending, pendAt, now) ==
  IF cand # committed
  THEN IF pending # cand
       THEN [state |-> committed, pendingState |-> cand, pendingAt |-> now, commit |-> FALSE]
       ELSE IF now - pendAt >= DEBOUNCE_MS
            THEN [state |-> cand, pendingState |-> None, pendingAt |-> pendAt, commit |-> TRUE]
            ELSE [state |-> committed, pendingState |-> pending, pendingAt |-> now, commit |-> FALSE]
  ELSE [state |-> committed, pendingState |-> None, pendingAt |-> pendAt, commit |-> FALSE]

\* lines 66-84: the debounce.  commit is TRUE when the candidate replaces the
\* committed state.
Debounce(cand, committed, pending, pendAt, now) ==
  IF cand # committed
  THEN IF pending # cand
       THEN [state |-> committed, pendingState |-> cand, pendingAt |-> now, commit |-> FALSE]
       ELSE IF now - pendAt >= DEBOUNCE_MS
            THEN [state |-> cand, pendingState |-> None, pendingAt |-> pendAt, commit |-> TRUE]
            ELSE [state |-> committed, pendingState |-> pending, pendingAt |-> pendAt, commit |-> FALSE]
  ELSE [state |-> committed, pendingState |-> None, pendingAt |-> pendAt, commit |-> FALSE]

\* Mutant: a delta of exactly the ceiling is accounted.
AcceptedDtInclusive(now, last, started) ==
  IF last > 0 /\ started > 0
  THEN LET dt == now - last IN IF dt > 0 /\ dt <= DT_CEILING_MS THEN dt ELSE 0
  ELSE 0

\* Mutant: a delta below zero is accounted like any other.
AcceptedDtSigned(now, last, started) ==
  IF last > 0 /\ started > 0
  THEN LET dt == now - last IN IF dt < DT_CEILING_MS THEN dt ELSE 0
  ELSE 0

\* lines 86-95: the delta that is accounted, 0 when none is
AcceptedDt(now, last, started) ==
  IF last > 0 /\ started > 0
  THEN LET dt == now - last IN IF dt > 0 /\ dt < DT_CEILING_MS THEN dt ELSE 0
  ELSE 0

\* Mutant: every commit of a non-attentive state counts.
IsDistractionAnyCommit(prev, cand) == cand # "attentive"

\* line 75: a committed transition that counts as a distraction
IsDistraction(prev, cand) == prev = "attentive" /\ cand # "attentive"

\* Mutant: the streak restarts on leaving attentive instead of on entering it.
RestartsStreakOnLeaving(prev, cand) == prev = "attentive" /\ cand # "attentive"

\* line 78: a committed transition that restarts the streak
RestartsStreak(prev, cand) == cand = "attentive"

\* lines 66-96 once the locals of lines 42-64 are known: `result` is line 55,
\* hold = <<candidate, eyeClosedSince>> lines 58-64, deb lines 66-84, dt line 87.
Commit(d, now, fy, fp, result, hold, deb, dt) ==
  /\ yawFilter' = fy[2]
  /\ pitchFilter' = fp[2]
  /\ raw' = result
  /\ eyeClosedSince' = hold[2]
  /\ state' = deb.state
  /\ pendingState' = deb.pendingState
  /\ pendingAt' = deb.pendingAt
  /\ distractionCount' = IF deb.commit /\ IsDistraction(state, hold[1])
                         THEN distractionCount + 1 ELSE distractionCount
  /\ totalMs' = totalMs + dt
  /\ attentiveMs' = IF deb.state = "attentive" THEN attentiveMs + dt ELSE attentiveMs
  /\ currentStreakMs' =
       (IF deb.commit /\ RestartsStreak(state, hold[1]) THEN 0 ELSE currentStreakMs)
       + (IF deb.state = "attentive" THEN dt ELSE 0)
  /\ lastTimestamp' = now
  /\ UNCHANGED sessionStart
  /\ data' = d
  /\ lastOp' = "processResult"
  /\ candRun' = ExtendRun(candRun, hold[1], now, lastTimestamp)
  /\ rawRun' = ExtendRawRun(rawRun, result.state, now)
  /\ seenTs' = SeenWith(seenTs, now)

\* Each local of the function is bound once, in the order the code computes it.
processResult(d) ==
  /\ totalMs <= MaxTotalMs
  /\ distractionCount < MaxDistractions
  /\ \E fy \in {IF d.headPose # Undefined
                 THEN OneEuroFilter(YawPitchOptions, yawFilter, d.headPose.yaw, d.timestamp)
                 ELSE <<0, yawFilter>>} :
     \E fp \in {IF d.headPose # Undefined
                 THEN OneEuroFilter(YawPitchOptions, pitchFilter, d.headPose.pitch, d.timestamp)
                 ELSE <<0, pitchFilter>>} :
     \E result \in {computeAttention(
                       IF d.headPose # Undefined
                       THEN [d EXCEPT !.headPose = [yaw |-> fy[1], pitch |-> fp[1],
                                                    roll |-> d.headPose.roll]]
                       ELSE d)} :
     \E hold \in {DrowsyHold(result.state, eyeClosedSince, d.timestamp)} :
     \E deb \in {Debounce(hold[1], state, pendingState, pendingAt, d.timestamp)} :
       Commit(d, d.timestamp, fy, fp, result, hold, deb,
              AcceptedDt(d.timestamp, lastTimestamp, sessionStart))

\* lines 37-39: attentiveMs / totalMs as a fraction, 0 while totalMs is 0
attentionRate ==
  IF totalMs > 0 THEN [num |-> attentiveMs, den |-> totalMs] ELSE [num |-> 0, den |-> 1]

\* Mutant: reset() leaves the two pose filters as they are.
resetKeepsFilters(clock) ==
  /\ state' = "absent"
  /\ attentiveMs' = 0
  /\ totalMs' = 0
  /\ distractionCount' = 0
  /\ currentStreakMs' = 0
  /\ sessionStart' = clock
  /\ lastTimestamp' = 0
  /\ pendingState' = None
  /\ eyeClosedSince' = 0
  /\ UNCHANGED <<yawFilter, pitchFilter, raw, pendingAt, data>>
  /\ lastOp' = "reset"
  /\ candRun' = NoRun
  /\ rawRun' = NoRawRun
  /\ seenTs' = NoneSeen

reset(clock) ==
  /\ state' = "absent"
  /\ attentiveMs' = 0
  /\ totalMs' = 0
  /\ distractionCount' = 0
  /\ currentStreakMs' = 0
  /\ sessionStart' = clock
  /\ lastTimestamp' = 0
  /\ pendingState' = None
  /\ eyeClosedSince' = 0
  /\ yawFilter' = FilterReset
  /\ pitchFilter' = FilterReset
  /\ UNCHANGED <<raw, pendingAt, data>>
  /\ lastOp' = "reset"
  /\ candRun' = NoRun
  /\ rawRun' = NoRawRun
  /\ seenTs' = NoneSeen

\* ----------------------------------- core/filter.ts, a filter on its own
VARIABLES
  oneEuro,           \* lastTime, lastValue, lastDx of a filter made by createOneEuroFilter
  oneEuroOptions,    \* the options it was created with
  oneEuroCall,       \* the last operation on it, its arguments and the value returned
  oneEuroRun         \* history: the filter() calls since creation or the last reset()

filterVars == <<oneEuro, oneEuroOptions, oneEuroCall, oneEuroRun>>

\* createOneEuroFilter(): minCutoff 1.0, beta 0.007, dCutoff 1.0
DefaultOptions == [minCutoff |-> Scale, betaNum |-> 7, betaDen |-> 1000, dCutoff |-> Scale]

\* The defaults, the options of filter.test.ts ({minCutoff: 1.0, beta: 0.0}),
\* of useAttention and of GazeDemo ({minCutoff: 1.5, beta: 0.5}).
FilterOptionSets ==
  {DefaultOptions,
   [minCutoff |-> Scale, betaNum |-> 0, betaDen |-> 1, dCutoff |-> Scale],
   YawPitchOptions,
   [minCutoff |-> (3 * Scale) \div 2, betaNum |-> 1, betaDen |-> 2, dCutoff |-> Scale]}

\* values fed to the filter: 0, 5.0 and 10.0 as in filter.test.ts, and -10.0
FilterValues == {-10 * Scale, 0, 5 * Scale, 10 * Scale}

\* timestamps fed to the filter, from 0 as in filter.test.ts
FilterTimestamps == {FilterTickMs * k : k \in 0..MaxFilterTick}

NoCall(op) == [op |-> op, value |-> 0, timestamp |-> 0, returned |-> 0]

\* No filter() call yet.  dirty: reset() was called on a filter that held a
\* value.
NoFilterRun(dirty) ==
  [calls |-> 0, value |-> 0, constant |-> TRUE, increasing |-> TRUE, lastTs |-> 0,
   dirty |-> dirty]

\* The run after one more filter() call: the number of calls (2 for two or
\* more), the first value and whether every value was that one, whether every
\* timestamp was later than all before it, and the latest timestamp seen.
ExtendFilterRun(run, value, timestamp) ==
  IF run.calls = 0
  THEN [calls |-> 1, value |-> value, constant |-> TRUE, increasing |-> TRUE,
        lastTs |-> timestamp, dirty |-> run.dirty]
  ELSE [calls |-> 2, value |-> run.value,
        constant |-> run.constant /\ value = run.value,
        increasing |-> run.increasing /\ timestamp > run.lastTs,
        lastTs |-> IF timestamp > run.lastTs THEN timestamp ELSE run.lastTs,
        dirty |-> run.dirty]

FilterInit ==
  /\ oneEuro = NewFilter
  /\ oneEuroOptions = DefaultOptions
  /\ oneEuroCall = NoCall("create")
  /\ oneEuroRun = NoFilterRun(FALSE)

createOneEuroFilter(options) ==
  /\ oneEuro' = NewFilter
  /\ oneEuroOptions' = options
  /\ oneEuroCall' = NoCall("create")
  /\ oneEuroRun' = NoFilterRun(FALSE)

filter(value, timestamp) ==
  \E r \in {OneEuroFilter(oneEuroOptions, oneEuro, value, timestamp)} :
    /\ oneEuro' = r[2]
    /\ oneEuroCall' = [op |-> "filter", value |-> value, timestamp |-> timestamp,
                       returned |-> r[1]]
    /\ oneEuroRun' = ExtendFilterRun(oneEuroRun, value, timestamp)
    /\ UNCHANGED oneEuroOptions

oneEuroReset ==
  /\ oneEuro' = FilterReset
  /\ oneEuroCall' = NoCall("reset")
  /\ oneEuroRun' = NoFilterRun(oneEuro.lastTime >= 0)
  /\ UNCHANGED oneEuroOptions

\* ------------------------------------------ affine calibration (part_009)
\* Gaze coordinates are whole numbers of 1/GazeScale, screen coordinates whole
\* pixels, so every sum and product below is exact.  A quotient is kept as the
\* fraction [num, den]; the coefficients a, b, d, e are per gaze unit.
Frac(n, d) == [num |-> n, den |-> d]

\* Math.abs(det) < 1e-12.  A determinant of the normal equations is a whole
\* number of GazeScale^-4, which is far above 1e-12: only 0 is below it.
SingularDet(det) == det = 0

\* Mutant: the determinant is not tested.
solve3x3Unguarded(A, b) ==
  LET a0 == A[1]
      a1 == A[2]
      a2 == A[3]
      det == a0[1] * (a1[2] * a2[3] - a1[3] * a2[2])
             - a0[2] * (a1[1] * a2[3] - a1[3] * a2[1])
             + a0[3] * (a1[1] * a2[2] - a1[2] * a2[1])
  IN <<Frac(b[1] * (a1[2] * a2[3] - a1[3] * a2[2])
              - a0[2] * (b[2] * a2[3] - a1[3] * b[3])
              + a0[3] * (b[2] * a2[2] - a1[2] * b[3]), det),
         Frac(a0[1] * (b[2] * a2[3] - a1[3] * b[3])
              - b[1] * (a1[1] * a2[3] - a1[3] * a2[1])
              + a0[3] * (a1[1] * b[3] - b[2] * a2[1]), det),
         Frac(a0[1] * (a1[2] * b[3] - b[2] * a2[2])
              - a0[2] * (a1[1] * b[3] - b[2] * a2[1])
              + b[1] * (a1[1] * a2[2] - a1[2] * a2[1]), det)>>

\* Cramer's rule: Null, or the three quotients
solve3x3(A, b) ==
  LET a0 == A[1]
      a1 == A[2]
      a2 == A[3]
      det == a0[1] * (a1[2] * a2[3] - a1[3] * a2[2])
             - a0[2] * (a1[1] * a2[3] - a1[3] * a2[1])
             + a0[3] * (a1[1] * a2[2] - a1[2] * a2[1])
  IN IF SingularDet(det)
     THEN Null
     ELSE <<Frac(b[1] * (a1[2] * a2[3] - a1[3] * a2[2])
                 - a0[2] * (b[2] * a2[3] - a1[3] * b[3])
                 + a0[3] * (b[2] * a2[2] - a1[2] * b[3]), det),
            Frac(a0[1] * (b[2] * a2[3] - a1[3] * b[3])
                 - b[1] * (a1[1] * a2[3] - a1[3] * a2[1])
                 + a0[3] * (a1[1] * b[3] - b[2] * a2[1]), det),
            Frac(a0[1] * (a1[2] * b[3] - b[2] * a2[2])
                 - a0[2] * (a1[1] * b[3] - b[2] * a2[1])
                 + b[1] * (a1[1] * a2[2] - a1[2] * a2[1]), det)>>

\* the sum of the numbers of a sequence
RECURSIVE Sum(_)
Sum(seq) == IF seq = <<>> THEN 0 ELSE Head(seq) + Sum(Tail(seq))

computeAffineTransform(samples) ==
  LET n == Len(samples) IN
  IF n < 3
  THEN Null
  ELSE LET gx == [k \in 1..n |-> samples[k].gaze.x]
           gy == [k \in 1..n |-> samples[k].gaze.y]
           sx == [k \in 1..n |-> samples[k].screen.x]
           sy == [k \in 1..n |-> samples[k].screen.y]
           sumGx2 == Sum([k \in 1..n |-> gx[k] * gx[k]])
           sumGy2 == Sum([k \in 1..n |-> gy[k] * gy[k]])
           sumGxGy == Sum([k \in 1..n |-> gx[k] * gy[k]])
           sumGx == Sum(gx)
           sumGy == Sum(gy)
           sumSxGx == Sum([k \in 1..n |-> sx[k] * gx[k]])
           sumSxGy == Sum([k \in 1..n |-> sx[k] * gy[k]])
           sumSx == Sum(sx)
           sumSyGx == Sum([k \in 1..n |-> sy[k] * gx[k]])
           sumSyGy == Sum([k \in 1..n |-> sy[k] * gy[k]])
           sumSy == Sum(sy)
           M == <<<<sumGx2, sumGxGy, sumGx>>,
                  <<sumGxGy, sumGy2, sumGy>>,
                  <<sumGx, sumGy, n>>>>
           abc == solve3x3(M, <<sumSxGx, sumSxGy, sumSx>>)
           def == solve3x3(M, <<sumSyGx, sumSyGy, sumSy>>)
       IN IF abc = Null \/ def = Null
          THEN Null
          ELSE [a |-> abc[1], b |-> abc[2], c |-> abc[3],
                d |-> def[1], e |-> def[2], f |-> def[3]]

\* k * p and p + q on exact fractions
FracTimes(p, k) == Frac(p.num * k, p.den)
FracPlus(p, q) ==
  IF p.den = q.den
  THEN Frac(p.num + q.num, p.den)
  ELSE Frac(p.num * q.den + q.num * p.den, p.den * q.den)

\* the fraction is the whole number v
FracIs(p, v) == p.num = v * p.den

\* Mutant: the two gaze coordinates are exchanged.
applyTransformAxesSwapped(t, gaze) ==
  [x |-> FracPlus(FracPlus(FracTimes(t.a, gaze.y), FracTimes(t.b, gaze.x)), t.c),
   y |-> FracPlus(FracPlus(FracTimes(t.d, gaze.y), FracTimes(t.e, gaze.x)), t.f)]

applyTransform(t, gaze) ==
  [x |-> FracPlus(FracPlus(FracTimes(t.a, gaze.x), FracTimes(t.b, gaze.y)), t.c),
   y |-> FracPlus(FracPlus(FracTimes(t.d, gaze.x), FracTimes(t.e, gaze.y)), t.f)]

VARIABLES
  affineSamples,     \* the CalibrationSample[] being put together by the caller
  affineFit          \* the last computeAffineTransform call: its argument and result

affineVars == <<affineSamples, affineFit>>

\* The 3x3 grid of head-pose.test.ts: gaze 0, 0.5, 1 on both axes, mapped 1:1
\* onto a 1920 x 1080 screen.
ScreenW == 1920
ScreenH == 1080

GridSample(gx, gy) ==
  [gaze |-> Pt(gx, gy),
   screen |-> Pt((gx * ScreenW) \div GazeScale, (gy * ScreenH) \div GazeScale)]

AffineSamplePool == {GridSample(gx, gy) : gx \in 0..GazeScale, gy \in 0..GazeScale}

NoFit == [called |-> FALSE, samples |-> <<>>, result |-> Null]

AffineInit ==
  /\ affineSamples = <<>>
  /\ affineFit = NoFit

\* the caller appends a sample to the array it will pass
affinePush(s) ==
  /\ Len(affineSamples) < MaxAffineSamples
  /\ affineSamples' = Append(affineSamples, s)
  /\ affineFit' = NoFit

affineCompute ==
  /\ affineFit' = [called |-> TRUE, samples |-> affineSamples,
                   result |-> computeAffineTransform(affineSamples)]
  /\ UNCHANGED affineSamples

\* the nine-point grid of the test, row by row
affineGrid ==
  /\ affineSamples' =
       [k \in 1..((GazeScale + 1) * (GazeScale + 1)) |->
          GridSample((k - 1) % (GazeScale + 1), (k - 1) \div (GazeScale + 1))]
  /\ affineFit' = NoFit

\* the caller starts a new array
affineClear ==
  /\ affineFit.called
  /\ affineSamples' = <<>>
  /\ affineFit' = NoFit

\* ------------------------------------------- core/filter.ts, point filter
VARIABLES
  pointA,        \* xFilter and yFilter of one point filter
  pointB,        \* xFilter and yFilter of a second one, called in step with it
  pointOptions,  \* the options both were created with
  pointCall,     \* the last operation on the two, its arguments and results
  pointRun       \* history: which inputs the two had in common since creation or reset

pointVars == <<pointA, pointB, pointOptions, pointCall, pointRun>>

\* coordinates fed to the point filters: 0 and 10 as in filter.test.ts
PointValues == {0, 10 * Scale}

PointTimestamps == {FilterTickMs * k : k \in 0..MaxPointTick}

NoPointCall(op) ==
  [op |-> op, timestamp |-> 0, a |-> [x |-> 0, y |-> 0], b |-> [x |-> 0, y |-> 0],
   outA |-> [x |-> 0, y |-> 0], outB |-> [x |-> 0, y |-> 0], afterReset |-> FALSE]

\* dirty: reset() was called on filters that held a value
NoPointRun(dirty) == [sameX |-> TRUE, sameY |-> TRUE, calls |-> 0, dirty |-> dirty]

PointInit ==
  /\ pointA = PointFilterReset
  /\ pointB = PointFilterReset
  /\ pointOptions = DefaultOptions
  /\ pointCall = NoPointCall("create")
  /\ pointRun = NoPointRun(FALSE)

\* two point filters are created with the same options
createPointFilter(options) ==
  /\ pointA' = PointFilterReset
  /\ pointB' = PointFilterReset
  /\ pointOptions' = options
  /\ pointCall' = NoPointCall("create")
  /\ pointRun' = NoPointRun(FALSE)

\* filter(a, timestamp) on the first and filter(b, timestamp) on the second
pointFilter(a, b, timestamp) ==
  \E ra \in {PointFilter(pointOptions, pointA, a, timestamp)} :
  \E rb \in {PointFilter(pointOptions, pointB, b, timestamp)} :
    /\ pointA' = ra[2]
    /\ pointB' = rb[2]
    /\ pointCall' = [op |-> "filter", timestamp |-> timestamp, a |-> a, b |-> b,
                     outA |-> ra[1], outB |-> rb[1],
                     afterReset |-> pointRun.dirty /\ pointRun.calls = 0]
    /\ pointRun' = [sameX |-> pointRun.sameX /\ a.x = b.x,
                    sameY |-> pointRun.sameY /\ a.y = b.y,
                    calls |-> pointRun.calls + 1, dirty |-> pointRun.dirty]
    /\ UNCHANGED pointOptions

\* reset() on both
pointReset ==
  /\ pointA' = PointFilterReset
  /\ pointB' = PointFilterReset
  /\ pointCall' = NoPointCall("reset")
  /\ pointRun' = NoPointRun(pointA.x.lastTime >= 0 \/ pointRun.dirty)
  /\ UNCHANGED pointOptions

\* -------------------------------------------------------- core/gaze.ts
\* Gaze ratios and gaze features are in units of 1/Scale.

LEFT_IRIS_CENTER == 468
RIGHT_IRIS_CENTER == 473
NOSE_TIP == 1
LEFT_CHEEK == 234
RIGHT_CHEEK == 454
FOREHEAD == 10
CHIN == 152
MIN_LANDMARKS == 478

\* What reading a property of landmarks[i] throws when the array has no entry i.
TypeError == [thrown |-> "TypeError"]

\* every landmarks[i] the function reads is an entry of the array
HasEntries(landmarks, indices) == \A i \in indices : i < landmarks.len

\* Mutant: only the empty array is too short.
TooShortOnlyWhenEmpty(landmarks) == landmarks.len = 0

\* landmarks.length < MIN_LANDMARKS
TooShort(landmarks) == landmarks.len < MIN_LANDMARKS

\* d !== 0 ? n / d : 0.5
RatioOrHalf(n, d) == IF d # 0 THEN RoundDiv(Scale * n, d) ELSE Scale \div 2

computeGazeRatio(landmarks) ==
  IF TooShort(landmarks)
  THEN Pt(0, 0)
  ELSE IF ~HasEntries(landmarks, {LEFT_IRIS_CENTER, LEFT_EYE_INNER, LEFT_EYE_OUTER,
                                  RIGHT_IRIS_CENTER, RIGHT_EYE_INNER, RIGHT_EYE_OUTER,
                                  LEFT_EYE_TOP, LEFT_EYE_BOTTOM, RIGHT_EYE_TOP,
                                  RIGHT_EYE_BOTTOM})
  THEN TypeError
  ELSE LET li == landmarks.pt[LEFT_IRIS_CENTER]
           lInner == landmarks.pt[LEFT_EYE_INNER]
           lOuter == landmarks.pt[LEFT_EYE_OUTER]
           ri == landmarks.pt[RIGHT_IRIS_CENTER]
           rInner == landmarks.pt[RIGHT_EYE_INNER]
           rOuter == landmarks.pt[RIGHT_EYE_OUTER]
           lRatioX == RatioOrHalf(li.x - lInner.x, lOuter.x - lInner.x)
           rRatioX == RatioOrHalf(ri.x - rInner.x, rOuter.x - rInner.x)
           lTop == landmarks.pt[LEFT_EYE_TOP]
           lBot == landmarks.pt[LEFT_EYE_BOTTOM]
           rTop == landmarks.pt[RIGHT_EYE_TOP]
           rBot == landmarks.pt[RIGHT_EYE_BOTTOM]
           lRatioY == RatioOrHalf(li.y - lTop.y, lBot.y - lTop.y)
           rRatioY == RatioOrHalf(ri.y - rTop.y, rBot.y - rTop.y)
       IN Pt(lRatioX + rRatioX - Scale, lRatioY + rRatioY - Scale)

\* w > 0.001 ? w : 0.001
Safe(w) == IF WidthOk(w) THEN w ELSE LandmarkScale \div 1000

computeGazeFeatures(landmarks) ==
  IF TooShort(landmarks)
  THEN [leftGaze |-> Pt(0, 0), rightGaze |-> Pt(0, 0), headYaw |-> 0, headPitch |-> 0]
  ELSE IF ~HasEntries(landmarks, {LEFT_IRIS_CENTER, RIGHT_IRIS_CENTER, LEFT_EYE_INNER,
                                  LEFT_EYE_OUTER, RIGHT_EYE_INNER, RIGHT_EYE_OUTER,
                                  NOSE_TIP, LEFT_CHEEK, RIGHT_CHEEK, FOREHEAD, CHIN})
  THEN TypeError
  ELSE LET li == landmarks.pt[LEFT_IRIS_CENTER]
           ri == landmarks.pt[RIGHT_IRIS_CENTER]
           lIn == landmarks.pt[LEFT_EYE_INNER]
           lOut == landmarks.pt[LEFT_EYE_OUTER]
           rIn == landmarks.pt[RIGHT_EYE_INNER]
           rOut == landmarks.pt[RIGHT_EYE_OUTER]
           nose == landmarks.pt[NOSE_TIP]
           cheekL == landmarks.pt[LEFT_CHEEK]
           cheekR == landmarks.pt[RIGHT_CHEEK]
           forehead == landmarks.pt[FOREHEAD]
           chin == landmarks.pt[CHIN]
           safeLW == Safe(dist(lIn, lOut))
           safeRW == Safe(dist(rIn, rOut))
           safeFW == Safe(Abs(cheekR.x - cheekL.x))
           safeFH == Safe(Abs(chin.y - forehead.y))
       IN [leftGaze |-> Pt(RoundDiv(Scale * (2 * li.x - (lIn.x + lOut.x)), 2 * safeLW),
                           RoundDiv(Scale * (2 * li.y - (lIn.y + lOut.y)), 2 * safeLW)),
           rightGaze |-> Pt(RoundDiv(Scale * (2 * ri.x - (rIn.x + rOut.x)), 2 * safeRW),
                            RoundDiv(Scale * (2 * ri.y - (rIn.y + rOut.y)), 2 * safeRW)),
           headYaw |-> RoundDiv(Scale * (2 * nose.x - (cheekL.x + cheekR.x)), 2 * safeFW),
           headPitch |-> RoundDiv(Scale * (4 * nose.y - (lIn.y + lOut.y + rIn.y + rOut.y)),
                                  4 * safeFH)]

VARIABLES
  extracted  \* history: the last landmark array and what each function made of it

featureVars == <<extracted>>

\* A face: the eye corners and lids of EyePoints, the irises off the middle of
\* their eyes by iris, the nose off the middle of the face by nose.
FacePoints(gap, iris, nose) ==
  EyePoints(gap) @@
  (LEFT_IRIS_CENTER :> Pt(Coord(40) + iris.x, Coord(40) + iris.y)) @@
  (RIGHT_IRIS_CENTER :> Pt(Coord(60) + iris.x, Coord(40) + iris.y)) @@
  (NOSE_TIP :> Pt(Coord(50) + nose, Coord(55))) @@
  (LEFT_CHEEK :> Pt(Coord(30), Coord(55))) @@
  (RIGHT_CHEEK :> Pt(Coord(70), Coord(55))) @@
  (FOREHEAD :> Pt(Coord(50), Coord(20))) @@
  (CHIN :> Pt(Coord(50), Coord(80)))

\* The first len entries of a landmark array with these points.
Landmarks(len, points) ==
  [len |-> len, pt |-> [i \in {j \in DOMAIN points : j < len} |-> points[i]]]

\* empty, one entry, a mesh without its iris entries, one short, full, longer
LandmarkLengths ==
  {0, 1, LEFT_IRIS_CENTER, MIN_LANDMARKS - 1, MIN_LANDMARKS, MIN_LANDMARKS + 1}

Offsets == {-Coord(2), 0, Coord(2)}

LandmarkArrays ==
  {Landmarks(len, FacePoints(gap, Pt(ix, iy), nose)) :
     len \in LandmarkLengths, gap \in {0, LandmarkScale \div 1000, Coord(3)},
     ix \in Offsets, iy \in Offsets, nose \in Offsets}

FeatureInit ==
  extracted = [called |-> FALSE, landmarks |-> Landmarks(0, EyePoints(0)),
               gazeRatio |-> Pt(0, 0), gazeFeatures |-> Undefined, ear |-> 0]

\* the three functions applied to one landmark array
extractFeatures(landmarks) ==
  extracted' = [called |-> TRUE, landmarks |-> landmarks,
                gazeRatio |-> computeGazeRatio(landmarks),
                gazeFeatures |-> computeGazeFeatures(landmarks),
                ear |-> computeEAR(landmarks)]

\* ------------------------------------------------- core/calibration.ts
\* Feature values and screen coordinates are whole numbers.  Means, standard
\* deviations, standardised features, the entries of the normal equations and
\* the coefficients are whole numbers of 1/FeatureScale; each quotient and
\* each root is rounded once to that grid.

\* lambda: number = 10.0
DEFAULT_LAMBDA == 10
\* the 20 of Math.min(numParams, 20)
SAMPLE_FLOOR == 20

Min(a, b) == IF a < b THEN a ELSE b

\* x < 1e-10 for a standard deviation, Math.abs(x) < 1e-12 for a pivot: the
\* model's numbers are whole numbers of 1/FeatureScale, of which only 0 is
\* below either.
BelowEpsilon(x) == x = 0

\* the row with the largest |aug[row][col]| among best and row..n, the
\* earliest of them
RECURSIVE MaxRow(_, _, _, _)
MaxRow(aug, col, row, best) ==
  IF row > Len(aug) THEN best
  ELSE MaxRow(aug, col, row + 1,
              IF Abs(aug[row][col]) > Abs(aug[best][col]) THEN row ELSE best)

\* [aug[col], aug[maxRow]] = [aug[maxRow], aug[col]]
SwapRows(aug, i, j) ==
  [r \in 1..Len(aug) |-> IF r = i THEN aug[j] ELSE IF r = j THEN aug[i] ELSE aug[r]]

\* lines 62-67: the rows below col lose their entry in column col
EliminateColumn(aug, col) ==
  LET n == Len(aug) IN
  [row \in 1..n |->
     IF row <= col
     THEN aug[row]
     ELSE LET factor == RoundDiv(aug[row][col] * FeatureScale, aug[col][col]) IN
          [j \in 1..(n + 1) |->
             IF j < col
             THEN aug[row][j]
             ELSE aug[row][j] - RoundDiv(factor * aug[col][j], FeatureScale)]]

\* lines 51-68 from column col on: Null when a pivot is below 1e-12
RECURSIVE Eliminate(_, _)
Eliminate(aug, col) ==
  IF col > Len(aug)
  THEN aug
  ELSE LET swapped == SwapRows(aug, col, MaxRow(aug, col, col + 1, col)) IN
       IF BelowEpsilon(swapped[col][col])
       THEN Null
       ELSE Eliminate(EliminateColumn(swapped, col), col + 1)

\* the sum of row[j] * x[j] for j in from..n
RECURSIVE DotFrom(_, _, _, _)
DotFrom(row, x, from, n) ==
  IF from > n THEN 0
  ELSE RoundDiv(row[from] * x[from], FeatureScale) + DotFrom(row, x, from + 1, n)

\* lines 70-77 for rows i, i - 1, .. 1
RECURSIVE BackSubstitute(_, _, _)
BackSubstitute(aug, i, x) ==
  IF i = 0
  THEN x
  ELSE LET n == Len(aug)
           xi == RoundDiv((aug[i][n + 1] - DotFrom(aug[i], x, i + 1, n)) * FeatureScale,
                          aug[i][i])
       IN BackSubstitute(aug, i - 1, [x EXCEPT ![i] = xi])

\* Gaussian elimination with partial pivoting: Null, or the solution
solveLinearSystem(A, b) ==
  LET n == Len(A)
      tri == Eliminate([i \in 1..n |-> Append(A[i], b[i])], 1)
  IN IF tri = Null THEN Null ELSE BackSubstitute(tri, n, [i \in 1..n |-> 0])

\* Mutant: lambda is added to the diagonal entry of the bias too.
buildAtARidgeOnBias(rows, samples, lambda, numFeatures, numParams) ==
  [AtA |-> [i \in 1..numParams |-> [j \in 1..numParams |->
              RoundDiv(Sum([k \in 1..Len(rows) |-> rows[k][i] * rows[k][j]]), FeatureScale)
              + (IF i = j THEN lambda * FeatureScale ELSE 0)]],
   Atbx |-> [i \in 1..numParams |->
              Sum([k \in 1..Len(rows) |-> rows[k][i] * samples[k].screen.x])],
   Atby |-> [i \in 1..numParams |->
              Sum([k \in 1..Len(rows) |-> rows[k][i] * samples[k].screen.y])]]

buildAtA(rows, samples, lambda, numFeatures, numParams) ==
  [AtA |-> [i \in 1..numParams |-> [j \in 1..numParams |->
              RoundDiv(Sum([k \in 1..Len(rows) |-> rows[k][i] * rows[k][j]]), FeatureScale)
              + (IF i = j /\ i <= numFeatures THEN lambda * FeatureScale ELSE 0)]],
   Atbx |-> [i \in 1..numParams |->
              Sum([k \in 1..Len(rows) |-> rows[k][i] * samples[k].screen.x])],
   Atby |-> [i \in 1..numParams |->
              Sum([k \in 1..Len(rows) |-> rows[k][i] * samples[k].screen.y])]]

\* lines 134-137
FeatureMean(samples, numFeatures) ==
  [i \in 1..numFeatures |->
     RoundDiv(FeatureScale * Sum([k \in 1..Len(samples) |-> samples[k].features[i]]),
              Len(samples))]

\* lines 139-147
FeatureStd(samples, numFeatures, mean) ==
  [i \in 1..numFeatures |->
     LET sq == Sum([k \in 1..Len(samples) |->
                      (FeatureScale * samples[k].features[i] - mean[i])
                      * (FeatureScale * samples[k].features[i] - mean[i])])
         var == RoundDiv(sq, Len(samples))
         std == SqrtSearch(var, 0, var)
     IN IF BelowEpsilon(std) THEN FeatureScale ELSE std]

\* Mutant: the mean is not subtracted.
StandardiseUncentred(features, mean, std) ==
  [i \in 1..Len(features) |-> RoundDiv(FeatureScale * features[i] * FeatureScale, std[i])]

\* (v - mean[i]) / std[i] for the entries of a feature vector
Standardise(features, mean, std) ==
  [i \in 1..Len(features) |->
     RoundDiv((FeatureScale * features[i] - mean[i]) * FeatureScale, std[i])]

\* Mutant: an axis that could not be solved gets zero coefficients.
GazeTransformOfSolvedAxes(xCoeffs, yCoeffs, mean, std, numFeatures) ==
  [xCoeffs |-> IF xCoeffs = Null THEN [i \in 1..(numFeatures + 1) |-> 0] ELSE xCoeffs,
   yCoeffs |-> IF yCoeffs = Null THEN [i \in 1..(numFeatures + 1) |-> 0] ELSE yCoeffs,
   featureMean |-> mean, featureStd |-> std, numFeatures |-> numFeatures]

\* lines 170-172
GazeTransformOf(xCoeffs, yCoeffs, mean, std, numFeatures) ==
  IF xCoeffs = Null \/ yCoeffs = Null
  THEN Null
  ELSE [xCoeffs |-> xCoeffs, yCoeffs |-> yCoeffs,
        featureMean |-> mean, featureStd |-> std, numFeatures |-> numFeatures]

\* lines 128-168 once the sample count has passed line 126: the two solutions
\* and what they were solved with
GazeSolve(samples, lambda) ==
  LET numFeatures == Len(samples[1].features)
      numParams == numFeatures + 1
      mean == FeatureMean(samples, numFeatures)
      std == FeatureStd(samples, numFeatures, mean)
      rows == [k \in 1..Len(samples) |->
                 Append(Standardise(samples[k].features, mean, std), FeatureScale)]
      sysX == buildAtA(rows, samples, lambda, numFeatures, numParams)
      sysY == buildAtA(rows, samples, lambda, numFeatures, numParams)
  IN [xCoeffs |-> solveLinearSystem(sysX.AtA, sysX.Atbx),
      yCoeffs |-> solveLinearSystem(sysY.AtA, sysY.Atby),
      mean |-> mean, std |-> std, numFeatures |-> numFeatures]

\* line 126
TooFewSamples(n, numParams) == n < Min(numParams, SAMPLE_FLOOR)

computeGazeTransform(samples, lambda) ==
  IF Len(samples) = 0
  THEN Null
  ELSE IF TooFewSamples(Len(samples), Len(samples[1].features) + 1)
       THEN Null
       ELSE LET s == GazeSolve(samples, lambda)
            IN GazeTransformOf(s.xCoeffs, s.yCoeffs, s.mean, s.std, s.numFeatures)

\* The standardised rows, bias included, that computeGazeTransform hands to
\* buildAtA for these samples.
RowsOf(samples) ==
  LET numFeatures == Len(samples[1].features)
      mean == FeatureMean(samples, numFeatures)
      std == FeatureStd(samples, numFeatures, mean)
  IN [k \in 1..Len(samples) |->
        Append(Standardise(samples[k].features, mean, std), FeatureScale)]

\* The caller's sample list after computeGazeTransform(samples, lambda): the
\* function reads samples.length, s.features and s.screen; rawFeatures and rows
\* are arrays that map() allocates, and solveLinearSystem works on its own
\* augmented copy of AtA.
samplesAfterCompute(samples, lambda) == samples

\* A coordinate as applyGazeTransform computes it: a number of pixels, or NaN.
Num(v) == [nan |-> FALSE, v |-> v]
NaN == [nan |-> TRUE, v |-> 0]

\* lines 179-181: (v - t.featureMean[i]) / t.featureStd[i]; past the end of
\* featureMean the operands are undefined and the quotient is NaN
StandardisedAt(t, features, i) ==
  IF i <= Len(t.featureMean)
  THEN Num(RoundDiv((FeatureScale * features[i] - t.featureMean[i]) * FeatureScale,
                    t.featureStd[i]))
  ELSE NaN

\* lines 179-182: the standardised features followed by the bias 1
StandardisedWithBias(t, features) ==
  Append([i \in 1..Len(features) |-> StandardisedAt(t, features, i)], Num(FeatureScale))

\* lines 184-189 for one axis: the sum of coeffs[i] * standardized[i] over the
\* numParams coefficients; an entry past the end of standardized is undefined
\* and its product NaN, and NaN absorbs the sum
WeightedSum(coeffs, standardized, numParams) ==
  IF \E i \in 1..numParams : i > Len(standardized) \/ standardized[i].nan
  THEN NaN
  ELSE Num(RoundDiv(Sum([i \in 1..numParams |-> coeffs[i] * standardized[i].v]),
                    FeatureScale * FeatureScale))

\* No statement of the function throws: it always returns { x: sx, y: sy }.
applyGazeTransform(t, features) ==
  [outcome |-> "point",
   x |-> WeightedSum(t.xCoeffs, StandardisedWithBias(t, features), t.numFeatures + 1),
   y |-> WeightedSum(t.yCoeffs, StandardisedWithBias(t, features), t.numFeatures + 1)]

VARIABLES
  gazeSamples,  \* the CalibrationSample[] handed to computeGazeTransform
  gazeFit,      \* history: the last computeGazeTransform call and its two solves
  gazeApply     \* history: the last applyGazeTransform call

gazeVars == <<gazeSamples, gazeFit, gazeApply>>

\* A sample of two features, looked at a screen point that moves with them.
GazeSample(a, b) ==
  [features |-> <<a, b>>,
   screen |-> Pt(ScreenW \div 2 + a * (ScreenW \div 4), ScreenH \div 2 + b * (ScreenH \div 4))]

GazeSamplePool == {GazeSample(a, b) : a \in {-1, 1}, b \in {-1, 1}}

\* The k-th sample of a feature vector as long as the sample floor: zeros, as
\* buildFeatureVector gives for missing eye patches, and one head-pose entry.
WideSample(k) ==
  [features |-> [i \in 1..SAMPLE_FLOOR |-> IF i = SAMPLE_FLOOR THEN (k % 3) - 1 ELSE 0],
   screen |-> Pt((k % 3) * (ScreenW \div 2), ((k \div 3) % 3) * (ScreenH \div 2))]

WideCounts == (SAMPLE_FLOOR - 1)..(SAMPLE_FLOOR + 1)

\* Feature vectors handed to applyGazeTransform: one, two or three entries,
\* or as many as the sample floor.
ApplyFeaturePool ==
  {<<1>>, <<1, -1>>, <<0, 1>>, <<1, -1, 0>>, [i \in 1..SAMPLE_FLOOR |-> 0]}

Lambdas == {0, DEFAULT_LAMBDA}

NoGazeFit ==
  [called |-> FALSE, samples |-> <<>>, lambda |-> 0,
   xCoeffs |-> Undefined, yCoeffs |-> Undefined, result |-> Null]

NoGazeApply ==
  [called |-> FALSE, features |-> <<>>, outcome |-> "none", x |-> NaN, y |-> NaN]

GazeInit ==
  /\ gazeSamples = <<>>
  /\ gazeFit = NoGazeFit
  /\ gazeApply = NoGazeApply

\* samples.push({ features, screen }) with a two-feature vector
gazePush(s) ==
  /\ Len(gazeSamples) < MaxGazeSamples
  /\ \A k \in 1..Len(gazeSamples) : Len(gazeSamples[k].features) = Len(s.features)
  /\ gazeSamples' = Append(gazeSamples, s)
  /\ gazeFit' = NoGazeFit
  /\ gazeApply' = NoGazeApply

\* count samples of a feature vector as long as the sample floor
gazeCollect(count) ==
  /\ gazeSamples' = [k \in 1..count |-> WideSample(k)]
  /\ gazeFit' = NoGazeFit
  /\ gazeApply' = NoGazeApply

\* samples = []
gazeClear ==
  /\ gazeSamples # <<>>
  /\ gazeSamples' = <<>>
  /\ gazeFit' = NoGazeFit
  /\ gazeApply' = NoGazeApply

\* t = computeGazeTransform(samples, lambda)
gazeCompute(lambda) ==
  /\ ~gazeFit.called
  /\ \E t \in {computeGazeTransform(gazeSamples, lambda)} :
       \E s \in {IF gazeSamples = <<>>
                    \/ TooFewSamples(Len(gazeSamples), Len(gazeSamples[1].features) + 1)
                  THEN [xCoeffs |-> Undefined, yCoeffs |-> Undefined]
                  ELSE GazeSolve(gazeSamples, lambda)} :
         gazeFit' = [called |-> TRUE, samples |-> gazeSamples, lambda |-> lambda,
                     xCoeffs |-> s.xCoeffs, yCoeffs |-> s.yCoeffs, result |-> t]
  /\ gazeApply' = NoGazeApply
  /\ gazeSamples' = samplesAfterCompute(gazeSamples, lambda)

\* applyGazeTransform(t, features) with the transform of the last fit
gazeApplyTransform(features) ==
  /\ gazeFit.called
  /\ gazeFit.result # Null
  /\ ~gazeApply.called
  /\ \E r \in {applyGazeTransform(gazeFit.result, features)} :
       gazeApply' = [called |-> TRUE, features |-> features,
                     outcome |-> r.outcome, x |-> r.x, y |-> r.y]
  /\ UNCHANGED <<gazeSamples, gazeFit>>

\* Mutant: the bias 1 is pushed onto the caller's feature vector.
featuresAfterApplyPushesBias(t, features) == Append(features, 1)

\* The caller's feature vector after applyGazeTransform(t, features):
\* standardized is the array features.map() allocates, and the bias is pushed
\* onto that one.
featuresAfterApply(t, features) == features

\* The caller's transform after applyGazeTransform(t, features): its four
\* fields are only read.
transformAfterApply(t, features) == t

VARIABLES
  gazeHeld      \* a transform and a feature vector a caller keeps and re-applies

heldVars == <<gazeHeld>>

HeldFeaturePool == {<<1, -1>>, <<0, 1>>}

NoGazeHeld ==
  [held |-> FALSE, transform0 |-> Null, transform |-> Null,
   features0 |-> <<>>, features |-> <<>>,
   first |-> [x |-> NaN, y |-> NaN], last |-> [x |-> NaN, y |-> NaN],
   applies |-> 0, afterFit |-> FALSE]

HeldInit == gazeHeld = NoGazeHeld

\* held = t; point = applyGazeTransform(held, features): the caller keeps the
\* transform of the last fit and the feature vector
gazeHold(features) ==
  /\ gazeFit.called
  /\ gazeFit.result # Null
  /\ ~gazeHeld.held
  /\ \E r \in {applyGazeTransform(gazeFit.result, features)} :
       gazeHeld' = [held |-> TRUE,
                    transform0 |-> gazeFit.result,
                    transform |-> transformAfterApply(gazeFit.result, features),
                    features0 |-> features,
                    features |-> featuresAfterApply(gazeFit.result, features),
                    first |-> [x |-> r.x, y |-> r.y],
                    last |-> [x |-> r.x, y |-> r.y],
                    applies |-> 1, afterFit |-> FALSE]

\* point = applyGazeTransform(held, features) once more, with the objects
\* as the earlier calls left them
gazeReapply ==
  /\ gazeHeld.held
  /\ gazeHeld.applies < MaxApplies
  /\ \E r \in {applyGazeTransform(gazeHeld.transform, gazeHeld.features)} :
       gazeHeld' = [gazeHeld EXCEPT
                      !.transform = transformAfterApply(gazeHeld.transform, gazeHeld.features),
                      !.features = featuresAfterApply(gazeHeld.transform, gazeHeld.features),
                      !.last = [x |-> r.x, y |-> r.y],
                      !.applies = @ + 1,
                      !.afterFit = @ \/ (gazeFit.called /\ gazeFit.result # gazeHeld.transform0)]

\* ------------------------------------------- views/CalibrationView.vue
\* Grid and validation points are in hundredths of the window, screen
\* positions in pixels of a ScreenW x ScreenH window.  A feature vector has
\* two entries (the head pose); a frame buffer holds at most one frame.

\* PADDING = 0.1, WINDOW_SIZE = 10, TARGET_RATE = 0.8, diag * 0.08
PADDING == 10
WINDOW_SIZE == 10
TARGET_RATE == 80
HIT_THRESHOLD == 8

GRID ==
  [i \in 1..9 |->
     [x |-> PADDING + (((i - 1) % 3) * 50 * (100 - 2 * PADDING)) \div 100,
      y |-> PADDING + (((i - 1) \div 3) * 50 * (100 - 2 * PADDING)) \div 100]]

\* pt.x * window.innerWidth, pt.y * window.innerHeight
ScreenPos(pt) == Pt((pt.x * ScreenW) \div 100, (pt.y * ScreenH) \div 100)

\* What generateRandomPoint may draw.
ValidationPoints == {[x |-> 30, y |-> 50], [x |-> 70, y |-> 50]}

\* The feature vector of a frame taken while the user faces screen position p:
\* one unit of head pose per fifth of the window.
FeatureOf(p) ==
  <<(p.x - ScreenW \div 2) \div (ScreenW \div 5), (p.y - ScreenH \div 2) \div (ScreenH \div 5)>>

\* Frame buffers a validation round may end with: no frame with a face, or one
\* frame facing the right edge, the left edge or the centre.
Phase2FrameBuffers == {<<>>, <<(<<2, 0>>)>>, <<(<<-2, 0>>)>>, <<(<<0, 0>>)>>}

VARIABLES
  phase,            \* 'intro' | 'phase1' | 'phase2' | 'done'
  currentIndex,     \* 0-based index into GRID
  viewSamples,      \* samples.value
  currentTransform, \* GazeTransform | null
  validationPoint,
  hitHistory,
  lastResult,       \* 'hit' | 'miss' | null
  timer,            \* the collection whose callback is pending
  transform,        \* useCalibration().transform
  frameBufferAtCallback  \* frameBuffer as the last callback found it

viewVars ==
  <<phase, currentIndex, viewSamples, currentTransform, validationPoint,
    hitHistory, lastResult, timer, transform, frameBufferAtCallback>>

ViewInit ==
  /\ phase = "intro"
  /\ currentIndex = 0
  /\ viewSamples = <<>>
  /\ currentTransform = Null
  /\ validationPoint = [x |-> 50, y |-> 50]
  /\ hitHistory = <<>>
  /\ lastResult = None
  /\ timer = None
  /\ transform = Null
  /\ frameBufferAtCallback = <<>>

\* the frames of a buffer as samples of one screen position
SamplesOf(frameBuffer, screen) ==
  [k \in 1..Len(frameBuffer) |-> [features |-> frameBuffer[k], screen |-> screen]]

\* Mutant: the frames of the round replace the samples gathered so far.
AccumulatedSamplesReplaced(smp, frameBuffer, actual) == SamplesOf(frameBuffer, actual)

\* lines 211-213: samples.value after the frames of a missed round were pushed
AccumulatedSamples(smp, frameBuffer, actual) == smp \o SamplesOf(frameBuffer, actual)

\* the button of the intro screen
startCalibration ==
  /\ phase = "intro"
  /\ viewSamples' = <<>>
  /\ currentIndex' = 0
  /\ phase' = "phase1"
  /\ timer' = "startPhase1Point"
  /\ UNCHANGED <<currentTransform, validationPoint, hitHistory, lastResult, transform,
                 frameBufferAtCallback>>

\* Mutant: phase 2 is entered whatever the fit returned.
enterPhase2Unchecked(smp) ==
  /\ currentTransform' = computeGazeTransform(smp, DEFAULT_LAMBDA)
  /\ phase' = "phase2"
  /\ viewSamples' = smp
  /\ hitHistory' = <<>>
  /\ \E pt \in ValidationPoints : validationPoint' = pt
  /\ timer' = "startPhase2Round"

\* enterPhase2 with smp as samples.value
enterPhase2(smp) ==
  \E t \in {computeGazeTransform(smp, DEFAULT_LAMBDA)} :
    /\ currentTransform' = t
    /\ IF t = Null
       THEN /\ phase' = "intro"
            /\ viewSamples' = <<>>
            /\ timer' = None
            /\ UNCHANGED <<hitHistory, validationPoint>>
       ELSE /\ phase' = "phase2"
            /\ viewSamples' = smp
            /\ hitHistory' = <<>>
            /\ \E pt \in ValidationPoints : validationPoint' = pt
            /\ timer' = "startPhase2Round"

\* the callback of startPhase1Point, run with frameBuffer collected
startPhase1Point(frameBuffer) ==
  /\ timer = "startPhase1Point"
  /\ frameBufferAtCallback' = frameBuffer
  /\ currentIndex' = currentIndex + 1
  /\ IF currentIndex + 1 >= Len(GRID)
     THEN enterPhase2(viewSamples \o SamplesOf(frameBuffer, ScreenPos(GRID[currentIndex + 1])))
     ELSE /\ viewSamples' =
               viewSamples \o SamplesOf(frameBuffer, ScreenPos(GRID[currentIndex + 1]))
          /\ UNCHANGED <<phase, currentTransform, validationPoint, hitHistory, timer>>
  /\ UNCHANGED <<lastResult, transform>>

\* the mean of applyGazeTransform over the frames of the buffer
Predicted(t, frameBuffer) ==
  Pt(RoundDiv(Sum([k \in 1..Len(frameBuffer) |-> applyGazeTransform(t, frameBuffer[k]).x.v]),
              Len(frameBuffer)),
     RoundDiv(Sum([k \in 1..Len(frameBuffer) |-> applyGazeTransform(t, frameBuffer[k]).y.v]),
              Len(frameBuffer)))

\* Math.hypot(p.x - q.x, p.y - q.y) < hitThreshold(), on the squares
IsHit(p, q) ==
  (p.x - q.x) * (p.x - q.x) + (p.y - q.y) * (p.y - q.y)
    <= (HIT_THRESHOLD * HIT_THRESHOLD * (ScreenW * ScreenW + ScreenH * ScreenH) - 1)
         \div (100 * 100)

\* the last WINDOW_SIZE entries
Recent(history) ==
  SubSeq(history, IF Len(history) > WINDOW_SIZE THEN Len(history) - WINDOW_SIZE + 1 ELSE 1,
         Len(history))

Hits(history) == Cardinality({k \in 1..Len(history) : history[k]})

\* recent.length >= WINDOW_SIZE && hits / recent.length >= TARGET_RATE
TargetReached(history) ==
  /\ Len(Recent(history)) >= WINDOW_SIZE
  /\ 100 * Hits(Recent(history)) >= TARGET_RATE * Len(Recent(history))

\* finishCalibration with t as currentTransform
finishCalibration(t) ==
  IF t # Null
  THEN phase' = "done" /\ transform' = t /\ timer' = None
  ELSE UNCHANGED <<phase, transform>> /\ timer' = None

\* the callback of startPhase2Round, run with frameBuffer collected; nextPoint
\* is what the next generateRandomPoint draws
startPhase2Round(frameBuffer, nextPoint) ==
  /\ timer = "startPhase2Round"
  /\ frameBufferAtCallback' = frameBuffer
  /\ IF frameBuffer = <<>> \/ currentTransform = Null
     THEN /\ lastResult' = None
          /\ validationPoint' = nextPoint
          /\ UNCHANGED <<phase, viewSamples, currentTransform, hitHistory, timer, transform>>
     ELSE \E actual \in {ScreenPos(validationPoint)} :
          \E isHit \in {IsHit(Predicted(currentTransform, frameBuffer), actual)} :
          \E smp \in {IF isHit THEN viewSamples
                                ELSE AccumulatedSamples(viewSamples, frameBuffer, actual)} :
          \E refit \in {IF isHit THEN Null ELSE computeGazeTransform(smp, DEFAULT_LAMBDA)} :
          \E t \in {IF refit = Null THEN currentTransform ELSE refit} :
            /\ Len(hitHistory) < MaxRounds
            /\ isHit \/ Len(hitHistory) - Hits(hitHistory) < MaxMisses
            /\ hitHistory' = Append(hitHistory, isHit)
            /\ lastResult' = IF isHit THEN "hit" ELSE "miss"
            /\ viewSamples' = smp
            /\ currentTransform' = t
            /\ IF TargetReached(Append(hitHistory, isHit))
               THEN finishCalibration(t) /\ UNCHANGED validationPoint
               ELSE validationPoint' = nextPoint /\ UNCHANGED <<phase, timer, transform>>
  /\ UNCHANGED currentIndex

\* ------------------------------ core/tracker-client.ts, core/tracker.worker.ts
\* A frame is the number of the detect() call that brought it (0: no frame).
\* The two message queues are the worker's inbox and the client's inbox.
VARIABLES
  nextId,            \* client: let nextId
  busy,              \* client: let busy
  pendingFrame,      \* client: let pendingFrame (0 for null)
  pendingTimestamp,  \* client: let pendingTimestamp
  initPromise,       \* client: the promise init() returned
  toWorker,          \* messages posted to the worker, not yet handled
  toClient,          \* messages posted by the worker, not yet handled
  workerAlive,       \* FALSE once worker.terminate() was called
  faceLandmarker,    \* worker: TRUE while faceLandmarker is not null
  workerInits,       \* worker: the init() calls awaiting; TRUE marks one
                     \* that a dispose has overtaken (history)
  frameLog,          \* history: timestamp and fate of every frame given to detect()
  postedLog,         \* history: the timestamps of the detect messages, as posted
  workerLog          \* history: events counted, and the last detect reply

trackerVars ==
  <<nextId, busy, pendingFrame, pendingTimestamp, initPromise, toWorker, toClient,
    workerAlive, faceLandmarker, workerInits, frameLog, postedLog, workerLog>>

NOT_INITIALIZED == "Not initialized"

InitMsg == [type |-> "init", frame |-> 0, timestamp |-> 0, id |-> 0]
DisposeMsg == [type |-> "dispose", frame |-> 0, timestamp |-> 0, id |-> 0]
DetectMsg(frame, timestamp, id) ==
  [type |-> "detect", frame |-> frame, timestamp |-> timestamp, id |-> id]

ReadyMsg == [type |-> "ready", id |-> 0, message |-> ""]
ResultMsg(id) == [type |-> "result", id |-> id, message |-> ""]
ErrorMsg(message) == [type |-> "error", id |-> 0, message |-> message]

NoWorkerLog ==
  [errors |-> 0, received |-> 0, disposed |-> FALSE,
   detectReply |-> "none", detectAfterDispose |-> FALSE]

TrackerInit ==
  /\ nextId = 0
  /\ busy = FALSE
  /\ pendingFrame = 0
  /\ pendingTimestamp = 0
  /\ initPromise = "none"
  /\ toWorker = <<>>
  /\ toClient = <<>>
  /\ workerAlive = TRUE
  /\ faceLandmarker = FALSE
  /\ workerInits = <<>>
  /\ frameLog = <<>>
  /\ postedLog = <<>>
  /\ workerLog = NoWorkerLog

\* worker.postMessage(msg): a terminated worker receives nothing
PostMessage(queue, msg) == IF workerAlive THEN Append(queue, msg) ELSE queue

\* frame.close() or the transfer of a frame, in the history of frames
Fate(log, frame, fate) == [log EXCEPT ![frame].fate = fate]

\* lines 35-39, the client's variables and the worker's inbox
sendToWorker(frame, timestamp) ==
  /\ nextId' = nextId + 1
  /\ busy' = TRUE
  /\ toWorker' = PostMessage(toWorker, DetectMsg(frame, timestamp, nextId))
  /\ postedLog' = Append(postedLog, timestamp)

\* lines 43-44 and 52: the messages on which onmessage sets busy = false
ReleasesClient(msg) == msg.type = "result"

\* lines 70-80: the handler init() registered, while the promise is pending
InitHandler(msg) ==
  IF initPromise = "pending"
  THEN IF msg.type = "ready" THEN "resolved"
       ELSE IF msg.type = "error" THEN "rejected" ELSE "pending"
  ELSE initPromise

\* lines 41-55: worker.onmessage for the oldest message of the client's inbox
clientOnMessage ==
  /\ toClient # <<>>
  /\ \E msg \in {Head(toClient)} :
       /\ toClient' = Tail(toClient)
       /\ initPromise' = InitHandler(msg)
       /\ IF ReleasesClient(msg) /\ pendingFrame # 0
          THEN /\ sendToWorker(pendingFrame, pendingTimestamp)
               /\ pendingFrame' = 0
               /\ frameLog' = Fate(frameLog, pendingFrame, "posted")
               /\ UNCHANGED pendingTimestamp
          ELSE /\ busy' = IF ReleasesClient(msg) THEN FALSE ELSE busy
               /\ UNCHANGED <<nextId, toWorker, postedLog, pendingFrame,
                              pendingTimestamp, frameLog>>
  /\ UNCHANGED <<workerAlive, faceLandmarker, workerInits, workerLog>>

\* lines 57-60: worker.onerror
clientOnError ==
  /\ workerAlive
  /\ workerLog.errors < MaxWorkerErrors
  /\ busy' = FALSE
  /\ workerLog' = [workerLog EXCEPT !.errors = @ + 1]
  /\ UNCHANGED <<nextId, pendingFrame, pendingTimestamp, initPromise, toWorker,
                 toClient, workerAlive, faceLandmarker, workerInits, frameLog, postedLog>>

\* lines 63-87: init()
clientInit ==
  /\ initPromise = "none"
  /\ initPromise' = "pending"
  /\ toWorker' = PostMessage(toWorker, InitMsg)
  /\ UNCHANGED <<nextId, busy, pendingFrame, pendingTimestamp, toClient, workerAlive,
                 faceLandmarker, workerInits, frameLog, postedLog, workerLog>>

\* lines 89-97: detect(frame, timestamp) with a new frame
detect(timestamp) ==
  /\ Len(frameLog) < MaxFrames
  /\ \E frame \in {Len(frameLog) + 1} :
       IF busy
       THEN /\ frameLog' = Append(IF pendingFrame # 0
                                  THEN Fate(frameLog, pendingFrame, "closed by detect")
                                  ELSE frameLog,
                                  [timestamp |-> timestamp, fate |-> "pending"])
            /\ pendingFrame' = frame
            /\ pendingTimestamp' = timestamp
            /\ UNCHANGED <<nextId, busy, toWorker, postedLog>>
       ELSE /\ sendToWorker(frame, timestamp)
            /\ frameLog' = Append(frameLog, [timestamp |-> timestamp, fate |-> "posted"])
            /\ UNCHANGED <<pendingFrame, pendingTimestamp>>
  /\ UNCHANGED <<initPromise, toClient, workerAlive, faceLandmarker, workerInits, workerLog>>

\* lines 99-106: dispose(); terminate() discards what either inbox holds
dispose ==
  /\ workerAlive
  /\ frameLog' = IF pendingFrame # 0
                 THEN Fate(frameLog, pendingFrame, "closed by dispose") ELSE frameLog
  /\ pendingFrame' = 0
  /\ toWorker' = <<>>
  /\ toClient' = <<>>
  /\ workerAlive' = FALSE
  /\ workerInits' = <<>>
  /\ UNCHANGED <<nextId, busy, pendingTimestamp, initPromise, faceLandmarker,
                 postedLog, workerLog>>

\* tracker.worker.ts lines 157-160: dispose touches faceLandmarker only; the
\* init() calls that are awaiting go on (each is marked as overtaken)
InitsAfterDispose(inits) == [i \in 1..Len(inits) |-> TRUE]

\* tracker.worker.ts lines 146-168 with detect, lines 101-140: self.onmessage
\* for the oldest message of the worker's inbox, up to its first await
workerOnMessage ==
  /\ workerAlive
  /\ toWorker # <<>>
  /\ \E msg \in {Head(toWorker)} :
       /\ toWorker' = Tail(toWorker)
       /\ \/ /\ msg.type = "init"
             /\ workerInits' = Append(workerInits, FALSE)
             /\ UNCHANGED <<faceLandmarker, toClient, workerLog>>
          \/ /\ msg.type = "detect"
             /\ \E answer \in IF faceLandmarker
                               THEN {ResultMsg(msg.id), ErrorMsg("detectForVideo failed")}
                               ELSE {ErrorMsg(NOT_INITIALIZED)} :
                  /\ toClient' = Append(toClient, answer)
                  /\ workerLog' = [workerLog EXCEPT
                                     !.detectReply = IF answer.type = "result"
                                                     THEN "result" ELSE answer.message,
                                     !.detectAfterDispose = workerLog.disposed]
             /\ UNCHANGED <<faceLandmarker, workerInits>>
          \/ /\ msg.type = "dispose"
             /\ faceLandmarker' = FALSE
             /\ workerInits' = InitsAfterDispose(workerInits)
             /\ workerLog' = [workerLog EXCEPT !.disposed = TRUE]
             /\ UNCHANGED toClient
  /\ UNCHANGED <<nextId, busy, pendingFrame, pendingTimestamp, initPromise,
                 workerAlive, frameLog, postedLog>>

\* tracker.worker.ts lines 79-99 and 151-153: an awaiting init() call goes on
\* to its end, where it assigns faceLandmarker and replies ready, or throws
workerInitDone(i, ok) ==
  /\ workerAlive
  /\ i \in 1..Len(workerInits)
  /\ workerInits' = [k \in 1..(Len(workerInits) - 1) |->
                       IF k < i THEN workerInits[k] ELSE workerInits[k + 1]]
  /\ faceLandmarker' = IF ok THEN TRUE ELSE faceLandmarker
  /\ toClient' = Append(toClient, IF ok THEN ReadyMsg ELSE ErrorMsg("init failed"))
  /\ workerLog' = [workerLog EXCEPT
                     !.disposed = IF workerInits[i] THEN workerLog.disposed ELSE FALSE]
  /\ UNCHANGED <<nextId, busy, pendingFrame, pendingTimestamp, initPromise, toWorker,
                 workerAlive, frameLog, postedLog>>

\* A message reaches a worker that is looked at on its own.
workerReceive(msg) ==
  /\ workerLog.received < MaxWorkerMsgs
  /\ toWorker' = Append(toWorker, msg)
  /\ workerLog' = [workerLog EXCEPT !.received = @ + 1]
  /\ UNCHANGED <<nextId, busy, pendingFrame, pendingTimestamp, initPromise, toClient,
                 workerAlive, faceLandmarker, workerInits, frameLog, postedLog>>

\* ------------------------------------------------------- core/camera.ts
VARIABLES
  active,         \* let active
  stream,         \* TRUE while stream is not null
  lastVideoTime,  \* let lastVideoTime
  frameCbs,       \* frameCbs.size
  listening,      \* TRUE while handleVisibilityChange is registered
  hidden,         \* document.hidden
  videoTime,      \* video.currentTime
  scheduled,      \* the frameLoop callbacks requested and not yet run
  bitmaps,        \* the createImageBitmap promises not yet settled
  starts,         \* the start() calls awaiting, each at "getUserMedia" or "play"
  cameraLog       \* history: the start() calls made; whether stop() returned
                  \* with no start() awaiting or called since; whether
                  \* handleVisibilityChange saw the page hidden, with no start()
                  \* since; and the same two at the last delivery of a frame

cameraVars ==
  <<active, stream, lastVideoTime, frameCbs, listening, hidden, videoTime,
    scheduled, bitmaps, starts, cameraLog>>

NoCameraLog ==
  [started |-> 0, stopped |-> FALSE, hiddenSeen |-> FALSE,
   delivered |-> FALSE, afterStop |-> FALSE, whileHidden |-> FALSE]

CameraInit ==
  /\ active = FALSE
  /\ stream = FALSE
  /\ lastVideoTime = -1
  /\ frameCbs = 0
  /\ listening = FALSE
  /\ hidden = FALSE
  /\ videoTime = 0
  /\ scheduled = 0
  /\ bitmaps = 0
  /\ starts = <<>>
  /\ cameraLog = NoCameraLog

\* lines 115-140: frameLoop() up to the call of createImageBitmap, entered
\* with `active` as given: what it leaves in lastVideoTime, and the callbacks
\* and bitmap creations it adds
frameLoop(isActive) ==
  IF ~isActive
  THEN [lastVideoTime |-> lastVideoTime, scheduled |-> scheduled, bitmaps |-> bitmaps]
  ELSE IF videoTime = lastVideoTime
       THEN [lastVideoTime |-> lastVideoTime, scheduled |-> scheduled + 1, bitmaps |-> bitmaps]
       ELSE IF frameCbs = 0
            THEN [lastVideoTime |-> videoTime, scheduled |-> scheduled + 1, bitmaps |-> bitmaps]
            ELSE [lastVideoTime |-> videoTime, scheduled |-> scheduled, bitmaps |-> bitmaps + 1]

\* A frameLoop() call from a place that adds an iteration of its own.
EnterFrameLoop(isActive) ==
  \E r \in {frameLoop(isActive)} :
    /\ r.scheduled + r.bitmaps <= MaxLoops
    /\ lastVideoTime' = r.lastVideoTime
    /\ scheduled' = r.scheduled
    /\ bitmaps' = r.bitmaps

\* lines 120-122: a requested callback runs frameLoop(); a hidden page may or
\* may not run it
cameraCallback ==
  /\ scheduled > 0
  /\ \E r \in {frameLoop(active)} :
       /\ lastVideoTime' = r.lastVideoTime
       /\ scheduled' = r.scheduled - 1
       /\ bitmaps' = r.bitmaps
  /\ UNCHANGED <<active, stream, frameCbs, listening, hidden, videoTime, starts, cameraLog>>

\* lines 141-147: the bitmaps for which the callbacks are invoked
DeliversBitmap(ok) == ok

\* lines 137-147: a createImageBitmap promise settles
cameraBitmap(ok) ==
  /\ bitmaps > 0
  /\ bitmaps' = bitmaps - 1
  /\ scheduled' = scheduled + 1
  /\ cameraLog' = IF DeliversBitmap(ok) /\ frameCbs > 0
                  THEN [cameraLog EXCEPT !.delivered = TRUE,
                                         !.afterStop = cameraLog.stopped,
                                         !.whileHidden = cameraLog.hiddenSeen]
                  ELSE cameraLog
  /\ UNCHANGED <<active, stream, lastVideoTime, frameCbs, listening, hidden, videoTime, starts>>

\* lines 150-157: the page is hidden or shown, and handleVisibilityChange
\* runs if it is registered
cameraVisibility ==
  /\ hidden' = ~hidden
  /\ IF ~listening
     THEN UNCHANGED <<active, lastVideoTime, scheduled, bitmaps>>
     ELSE IF ~hidden
          THEN active' = FALSE /\ UNCHANGED <<lastVideoTime, scheduled, bitmaps>>
          ELSE IF stream /\ ~active
               THEN active' = TRUE /\ EnterFrameLoop(TRUE)
               ELSE UNCHANGED <<active, lastVideoTime, scheduled, bitmaps>>
  /\ cameraLog' = [cameraLog EXCEPT !.hiddenSeen = listening /\ ~hidden]
  /\ UNCHANGED <<stream, frameCbs, listening, videoTime, starts>>

\* line 160: start() is called and awaits getUserMedia
cameraStart ==
  /\ cameraLog.started < MaxStarts
  /\ starts' = Append(starts, "getUserMedia")
  /\ cameraLog' = [cameraLog EXCEPT !.started = @ + 1, !.stopped = FALSE,
                                    !.hiddenSeen = FALSE]
  /\ UNCHANGED <<active, stream, lastVideoTime, frameCbs, listening, hidden, videoTime,
                 scheduled, bitmaps>>

\* lines 161-174: the start() call i goes on to its next await or to its end;
\* getUserMedia or play() may reject
cameraStartResume(i, ok) ==
  /\ i \in 1..Len(starts)
  /\ IF ~ok
     THEN /\ starts' = [k \in 1..(Len(starts) - 1) |->
                          IF k < i THEN starts[k] ELSE starts[k + 1]]
          /\ UNCHANGED <<active, stream, listening, lastVideoTime, scheduled, bitmaps>>
     ELSE IF starts[i] = "getUserMedia"
          THEN /\ stream' = TRUE
               /\ starts' = [starts EXCEPT ![i] = "play"]
               /\ UNCHANGED <<active, listening, lastVideoTime, scheduled, bitmaps>>
          ELSE /\ active' = TRUE
               /\ listening' = TRUE
               /\ EnterFrameLoop(TRUE)
               /\ starts' = [k \in 1..(Len(starts) - 1) |->
                               IF k < i THEN starts[k] ELSE starts[k + 1]]
               /\ UNCHANGED stream
  /\ cameraLog' = IF ok /\ starts[i] = "play"
                  THEN [cameraLog EXCEPT !.stopped = FALSE, !.hiddenSeen = FALSE]
                  ELSE cameraLog
  /\ UNCHANGED <<frameCbs, hidden, videoTime>>

\* lines 176-184: stop()
cameraStop ==
  /\ active' = FALSE
  /\ listening' = FALSE
  /\ stream' = FALSE
  /\ cameraLog' = [cameraLog EXCEPT !.stopped = (starts = <<>>)]
  /\ UNCHANGED <<lastVideoTime, frameCbs, hidden, videoTime, scheduled, bitmaps, starts>>

\* lines 190-195: onFrame(cb), or the function it returned
cameraOnFrame ==
  /\ frameCbs' = 1 - frameCbs
  /\ UNCHANGED <<active, stream, lastVideoTime, listening, hidden, videoTime,
                 scheduled, bitmaps, starts, cameraLog>>

\* the video shows its next frame
cameraVideoFrame ==
  /\ stream
  /\ videoTime < MaxVideoTime
  /\ videoTime' = videoTime + 1
  /\ UNCHANGED <<active, stream, lastVideoTime, frameCbs, listening, hidden,
                 scheduled, bitmaps, starts, cameraLog>>

\* ------------------------------------------- composables/useTracker.ts
\* A camera stream and a tracker client are created together by a start()
\* call; the pair made by the n-th call is instance n (0 for null).
VARIABLES
  status,       \* status.value
  camera,       \* let camera: the instance, 0 for null
  tracker,      \* let tracker: the instance, 0 for null
  frameUnsub,   \* TRUE while frameUnsub is not null
  instances,    \* of each instance: its camera ("idle", "starting", "live",
                \* "stopped"), whether its worker is alive, and whether its
                \* error callback is still registered
  awaiting,     \* the start() calls awaiting: at "init" or "camera", with the
                \* instance whose promise they await
  trackerLog    \* history: TRUE when stop() has returned and start() was not
                \* called since

useTrackerVars == <<status, camera, tracker, frameUnsub, instances, awaiting, trackerLog>>

UseTrackerInit ==
  /\ status = "idle"
  /\ camera = 0
  /\ tracker = 0
  /\ frameUnsub = FALSE
  /\ instances = <<>>
  /\ awaiting = <<>>
  /\ trackerLog = FALSE

Without(seq, i) ==
  [k \in 1..(Len(seq) - 1) |-> IF k < i THEN seq[k] ELSE seq[k + 1]]

\* lines 21-40: start() up to `await tracker.init()`
trackerStart ==
  /\ Len(instances) < MaxTrackerStarts
  /\ trackerLog' = FALSE
  /\ IF status = "running"
     THEN UNCHANGED <<status, camera, tracker, frameUnsub, instances, awaiting>>
     ELSE /\ status' = "loading"
          /\ instances' = Append(instances, [camera |-> "idle", worker |-> TRUE,
                                             onError |-> TRUE])
          /\ camera' = Len(instances) + 1
          /\ tracker' = Len(instances) + 1
          /\ awaiting' = Append(awaiting, [at |-> "init", instance |-> Len(instances) + 1])
          /\ UNCHANGED frameUnsub

\* lines 40-41 and 48-51: the init() promise of the awaiting call i settles:
\* resolved by the worker's ready message, or rejected by an error message
\* or, also after the worker was terminated, by the 15 s timeout; the call
\* goes on to camera.start() with what `camera` holds by then
trackerInitSettles(i, ok) ==
  /\ i \in 1..Len(awaiting)
  /\ awaiting[i].at = "init"
  /\ ok => instances[awaiting[i].instance].worker
  /\ IF ok /\ camera # 0
     THEN /\ awaiting' = [awaiting EXCEPT ![i] = [at |-> "camera", instance |-> camera]]
          /\ instances' = [instances EXCEPT ![camera].camera = "starting"]
          /\ UNCHANGED status
     ELSE /\ awaiting' = Without(awaiting, i)
          /\ status' = "error"
          /\ UNCHANGED instances
  /\ UNCHANGED <<camera, tracker, frameUnsub, trackerLog>>

\* lines 41-51: the camera.start() promise of the awaiting call i settles;
\* stop() of the camera stream does not keep an awaiting start() from going
\* on to open the stream
trackerCameraSettles(i, ok) ==
  /\ i \in 1..Len(awaiting)
  /\ awaiting[i].at = "camera"
  /\ awaiting' = Without(awaiting, i)
  /\ instances' = [instances EXCEPT ![awaiting[i].instance].camera =
                                       IF ok THEN "live" ELSE "stopped"]
  /\ IF ok /\ camera # 0
     THEN frameUnsub' = TRUE /\ status' = "running"
     ELSE status' = "error" /\ UNCHANGED frameUnsub
  /\ UNCHANGED <<camera, tracker, trackerLog>>

\* lines 31-34: the error callback of a tracker that was not disposed
trackerOnError(n) ==
  /\ n \in 1..Len(instances)
  /\ instances[n].worker /\ instances[n].onError
  /\ status # "error"
  /\ status' = "error"
  /\ UNCHANGED <<camera, tracker, frameUnsub, instances, awaiting, trackerLog>>

\* lines 54-64: stop(), with stop() of the camera and dispose() of the tracker
trackerStop ==
  /\ frameUnsub' = FALSE
  /\ instances' = [n \in 1..Len(instances) |->
                     [camera |-> IF n = camera /\ instances[n].camera = "live"
                                 THEN "stopped" ELSE instances[n].camera,
                      worker |-> IF n = tracker THEN FALSE ELSE instances[n].worker,
                      onError |-> IF n = tracker THEN FALSE ELSE instances[n].onError]]
  /\ camera' = 0
  /\ tracker' = 0
  /\ status' = "idle"
  /\ trackerLog' = TRUE
  /\ UNCHANGED awaiting

\* ------------------------------------------- components/GazeOverlay.vue
\* The grid overlay, with a transform present and a window of ScreenW x
\* ScreenH pixels.  Time is in ms; dwellTimer holds the time left.
COLS == 32
ROWS == 32
DWELL_MS == 150

VARIABLES
  activeRow,    \* activeRow.value
  activeCol,    \* activeCol.value
  pendingRow,   \* let pendingRow
  pendingCol,   \* let pendingCol
  dwellTimer,   \* -1 while dwellTimer is null, else the ms until it fires
  overlayLog    \* history: the clock, the run of results on one cell, the time
                \* the pending cell was set, and the zone events emitted

overlayVars == <<activeRow, activeCol, pendingRow, pendingCol, dwellTimer, overlayLog>>

NoOverlayLog ==
  [now |-> 0, runRow |-> -1, runCol |-> -1, runSince |-> 0, pendingSince |-> 0,
   zones |-> 0]

OverlayInit ==
  /\ activeRow = -1
  /\ activeCol = -1
  /\ pendingRow = -1
  /\ pendingCol = -1
  /\ dwellTimer = -1
  /\ overlayLog = NoOverlayLog

\* lines 87-89
clamp(v, lo, hi) == IF v < lo THEN lo ELSE IF v > hi THEN hi ELSE v

\* lines 101-102 with lines 83-84: clamp(Math.floor(p / (size / count)), 0, count - 1)
CellOf(p, size, count) == clamp((p * count) \div size, 0, count - 1)

\* Screen points the transform maps results to: in three cells, and outside
\* the window.
OverlayPoints ==
  {Pt(-5, 10), Pt(30, 10), Pt(90, 10), Pt(30, 40), Pt(ScreenW + 5, ScreenH + 5)}

\* lines 107-114: the pending cell after a result on the active cell
PendingAfterActive(row, col) == [row |-> row, col |-> col]

\* history: the run of results on one cell, once a result on (row, col) is in
RunWith(row, col) ==
  IF row = overlayLog.runRow /\ col = overlayLog.runCol
  THEN overlayLog
  ELSE [overlayLog EXCEPT !.runRow = row, !.runCol = col, !.runSince = overlayLog.now]

\* lines 97-129: the onResult callback for a result the transform maps to pos
overlayOnResult(pos) ==
  \E col \in {CellOf(pos.x, ScreenW, COLS)}, row \in {CellOf(pos.y, ScreenH, ROWS)} :
    /\ UNCHANGED <<activeRow, activeCol>>
    /\ IF col = activeCol /\ row = activeRow
       THEN /\ dwellTimer' = -1
            /\ pendingRow' = PendingAfterActive(pendingRow, pendingCol).row
            /\ pendingCol' = PendingAfterActive(pendingRow, pendingCol).col
            /\ overlayLog' = RunWith(row, col)
       ELSE IF col = pendingCol /\ row = pendingRow
            THEN /\ UNCHANGED <<dwellTimer, pendingRow, pendingCol>>
                 /\ overlayLog' = RunWith(row, col)
            ELSE /\ pendingCol' = col
                 /\ pendingRow' = row
                 /\ dwellTimer' = DWELL_MS
                 /\ overlayLog' = [RunWith(row, col) EXCEPT !.pendingSince = overlayLog.now]

\* lines 123-128: the dwell timer fires
overlayTimeout ==
  /\ dwellTimer = 0
  /\ activeCol' = pendingCol
  /\ activeRow' = pendingRow
  /\ dwellTimer' = -1
  /\ overlayLog' = [overlayLog EXCEPT !.zones = @ + 1]
  /\ UNCHANGED <<pendingRow, pendingCol>>

\* DwellTickMs pass; a timer that is due fires before more time passes
overlayTick ==
  /\ dwellTimer # 0
  /\ overlayLog.now < DwellTickMs * MaxDwellTicks
  /\ dwellTimer' = IF dwellTimer > 0 THEN dwellTimer - DwellTickMs ELSE dwellTimer
  /\ overlayLog' = [overlayLog EXCEPT !.now = @ + DwellTickMs]
  /\ UNCHANGED <<activeRow, activeCol, pendingRow, pendingCol>>

vars == <<attentionVars, filterVars, affineVars, gazeVars, viewVars, featureVars, pointVars, heldVars, trackerVars, cameraVars, useTrackerVars, overlayVars>>

Init == AttentionInit /\ FilterInit /\ AffineInit /\ GazeInit /\ ViewInit /\ FeatureInit /\ PointInit /\ HeldInit /\ TrackerInit /\ CameraInit /\ UseTrackerInit /\ OverlayInit

\* ---- specifications
\* Spec: every kind of observation, timestamps that never go back (duplicates
\* included), as useTracker hands performance.now() to detect().
\* what a step of useAttention leaves alone
AttentionFrame == UNCHANGED <<filterVars, affineVars, gazeVars, viewVars, featureVars, pointVars, heldVars, trackerVars, cameraVars, useTrackerVars, overlayVars>>

ProcessResultStep ==
  /\ \E d \in TrackingResults : d.timestamp >= lastTimestamp /\ processResult(d)
  /\ AttentionFrame

ResetStep ==
  /\ \E clock \in ClockReadings : reset(clock)
  /\ AttentionFrame

Next == ProcessResultStep \/ ResetStep

Spec == Init /\ [][Next]_vars

\* SpecAnyOrder: timestamps in any order, duplicate and out-of-order included,
\* for a face that is attentive, turned away or gone.
AnyOrderKinds ==
  {Kind(Undefined, Undefined, Undefined),
   Kind(FaceCenter, Front, LmOpen),
   Kind(FaceCenter, Turned, LmOpen)}

AnyOrderResults == {Observation(k, t) : k \in AnyOrderKinds, t \in Timestamps}

ProcessAnyOrderStep ==
  /\ \E d \in AnyOrderResults : processResult(d)
  /\ AttentionFrame

NextAnyOrder == ProcessAnyOrderStep \/ ResetStep

SpecAnyOrder == Init /\ [][NextAnyOrder]_vars

\* SpecHold: eyes closing and opening over a horizon longer than the drowsy
\* hold: every timestamp of the grid, and each of them a hold later.
HoldTimestamps == Timestamps \cup {t + DROWSY_HOLD_MS : t \in Timestamps}

HoldKinds ==
  {Kind(Undefined, Undefined, Undefined),
   Kind(FaceCenter, Front, LmOpen),
   Kind(FaceCenter, Front, LmClosed),
   Kind(FaceCenter, Turned, LmClosed)}

HoldResults == {Observation(k, t) : k \in HoldKinds, t \in HoldTimestamps}

ProcessHoldStep ==
  /\ \E d \in HoldResults : d.timestamp >= lastTimestamp /\ processResult(d)
  /\ AttentionFrame

NextHold == ProcessHoldStep \/ ResetStep

SpecHold == Init /\ [][NextHold]_vars

\* SpecFilter: one One Euro filter, created with each of the option sets, fed
\* values at timestamps in any order, and reset.
\* what a call on the filter leaves alone
FilterFrame == UNCHANGED <<attentionVars, affineVars, gazeVars, viewVars, featureVars, pointVars, heldVars, trackerVars, cameraVars, useTrackerVars, overlayVars>>

CreateFilterStep ==
  /\ \E options \in FilterOptionSets : createOneEuroFilter(options)
  /\ FilterFrame

FilterStep ==
  /\ \E value \in FilterValues, timestamp \in FilterTimestamps : filter(value, timestamp)
  /\ FilterFrame

FilterResetStep ==
  /\ oneEuroReset
  /\ FilterFrame

NextFilter == CreateFilterStep \/ FilterStep \/ FilterResetStep

SpecFilter == Init /\ [][NextFilter]_vars

\* ------------------------------------------------ two point filters in step
PointFrame == UNCHANGED <<attentionVars, filterVars, affineVars, gazeVars, viewVars, featureVars, heldVars, trackerVars, cameraVars, useTrackerVars, overlayVars>>

CreatePointFilterStep ==
  /\ \E options \in {DefaultOptions, YawPitchOptions} : createPointFilter(options)
  /\ PointFrame

\* The two runs are followed while they have had the same inputs on one axis.
PointFilterStep ==
  /\ pointRun.calls < MaxPointCalls
  /\ \E ax \in PointValues, ay \in PointValues, bx \in PointValues, by \in PointValues,
        timestamp \in PointTimestamps :
       /\ (pointRun.sameX /\ ax = bx) \/ (pointRun.sameY /\ ay = by)
       /\ pointFilter([x |-> ax, y |-> ay], [x |-> bx, y |-> by], timestamp)
  /\ PointFrame

PointResetStep == pointReset /\ PointFrame

NextPoint == CreatePointFilterStep \/ PointFilterStep \/ PointResetStep

SpecPoint == Init /\ [][NextPoint]_vars

\* SpecAffine: computeAffineTransform on every array of up to MaxAffineSamples
\* samples of the grid.
AffineFrame == UNCHANGED <<attentionVars, filterVars, gazeVars, viewVars, featureVars, pointVars, heldVars, trackerVars, cameraVars, useTrackerVars, overlayVars>>

AffinePushStep ==
  /\ \E s \in AffineSamplePool : affinePush(s)
  /\ AffineFrame

AffineComputeStep == affineCompute /\ AffineFrame

AffineClearStep == affineClear /\ AffineFrame

AffineGridStep == affineGrid /\ AffineFrame

NextAffine == AffinePushStep \/ AffineComputeStep \/ AffineClearStep \/ AffineGridStep

SpecAffine == Init /\ [][NextAffine]_vars

\* ------------------------------------------------ the gaze regression alone
GazeFrame == UNCHANGED <<attentionVars, filterVars, affineVars, viewVars, featureVars, pointVars, heldVars, trackerVars, cameraVars, useTrackerVars, overlayVars>>

GazePushStep ==
  /\ \E s \in GazeSamplePool : gazePush(s)
  /\ GazeFrame

GazeCollectStep ==
  /\ \E count \in WideCounts : gazeCollect(count)
  /\ GazeFrame

GazeClearStep == gazeClear /\ GazeFrame

GazeComputeStep ==
  /\ \E lambda \in Lambdas : gazeCompute(lambda)
  /\ GazeFrame

GazeApplyStep ==
  /\ \E features \in ApplyFeaturePool : gazeApplyTransform(features)
  /\ GazeFrame

NextGaze ==
  GazePushStep \/ GazeCollectStep \/ GazeClearStep \/ GazeComputeStep \/ GazeApplyStep

SpecGaze == Init /\ [][NextGaze]_vars

\* ------------------------------- a transform kept across further fits
HeldFrame == UNCHANGED <<attentionVars, filterVars, affineVars, viewVars, featureVars, pointVars, trackerVars, cameraVars, useTrackerVars, overlayVars>>

HeldPushStep ==
  /\ \E s \in GazeSamplePool : gazePush(s)
  /\ UNCHANGED heldVars
  /\ HeldFrame

HeldComputeStep ==
  /\ \E lambda \in Lambdas : gazeCompute(lambda)
  /\ UNCHANGED heldVars
  /\ HeldFrame

HeldHoldStep ==
  /\ \E features \in HeldFeaturePool : gazeHold(features)
  /\ UNCHANGED gazeVars
  /\ HeldFrame

HeldReapplyStep ==
  /\ gazeReapply
  /\ UNCHANGED gazeVars
  /\ HeldFrame

NextHeld == HeldPushStep \/ HeldComputeStep \/ HeldHoldStep \/ HeldReapplyStep

SpecHeld == Init /\ [][NextHeld]_vars

\* ------------------------------------------------ the calibration view alone
ViewFrame == UNCHANGED <<attentionVars, filterVars, affineVars, gazeVars, featureVars, pointVars, heldVars, trackerVars, cameraVars, useTrackerVars, overlayVars>>

StartCalibrationStep == startCalibration /\ ViewFrame

\* The face is in view for the first few grid points of a session and for none
\* after it was lost.
Phase1PointStep ==
  /\ timer = "startPhase1Point"
  /\ \E frameBuffer \in {<<>>, <<FeatureOf(ScreenPos(GRID[currentIndex + 1]))>>} :
       /\ frameBuffer # <<>> => Len(viewSamples) = currentIndex
       /\ startPhase1Point(frameBuffer)
  /\ ViewFrame

Phase2RoundStep ==
  /\ \E frameBuffer \in Phase2FrameBuffers, nextPoint \in ValidationPoints :
       startPhase2Round(frameBuffer, nextPoint)
  /\ ViewFrame

NextView == StartCalibrationStep \/ Phase1PointStep \/ Phase2RoundStep

SpecView == Init /\ [][NextView]_vars

\* ------------------------------------------------ feature extraction alone
FeatureFrame == UNCHANGED <<attentionVars, filterVars, affineVars, gazeVars, viewVars, pointVars, heldVars, trackerVars, cameraVars, useTrackerVars, overlayVars>>

ExtractFeaturesStep ==
  /\ \E landmarks \in LandmarkArrays : extractFeatures(landmarks)
  /\ FeatureFrame

NextFeatures == ExtractFeaturesStep

SpecFeatures == Init /\ [][NextFeatures]_vars

\* ------------------------------------- the tracker client and its worker
TrackerFrame == UNCHANGED <<attentionVars, filterVars, affineVars, gazeVars, viewVars, featureVars, pointVars, heldVars, cameraVars, useTrackerVars, overlayVars>>

\* detect() is handed performance.now(): timestamps never go back
LastFrameTimestamp == IF frameLog = <<>> THEN 0 ELSE frameLog[Len(frameLog)].timestamp

ClientInitStep == clientInit /\ TrackerFrame

DetectStep ==
  /\ \E timestamp \in {LastFrameTimestamp, LastFrameTimestamp + 1} : detect(timestamp)
  /\ TrackerFrame

ClientOnMessageStep == clientOnMessage /\ TrackerFrame

ClientOnErrorStep == clientOnError /\ TrackerFrame

DisposeStep == dispose /\ TrackerFrame

WorkerOnMessageStep == workerOnMessage /\ TrackerFrame

WorkerInitDoneStep ==
  /\ \E i \in 1..Len(workerInits), ok \in BOOLEAN : workerInitDone(i, ok)
  /\ TrackerFrame

NextClient ==
  \/ ClientInitStep \/ DetectStep \/ ClientOnMessageStep \/ ClientOnErrorStep
  \/ DisposeStep \/ WorkerOnMessageStep \/ WorkerInitDoneStep

SpecClient == Init /\ [][NextClient]_vars

\* SpecClientLive: a client that is not disposed and a worker without error
\* events; the worker goes on handling its inbox and its init() calls, and the
\* client its own inbox.
NextClientLive ==
  \/ ClientInitStep \/ DetectStep \/ ClientOnMessageStep
  \/ WorkerOnMessageStep \/ WorkerInitDoneStep

SpecClientLive ==
  /\ Init
  /\ [][NextClientLive]_vars
  /\ WF_vars(ClientOnMessageStep)
  /\ WF_vars(WorkerOnMessageStep)
  /\ WF_vars(WorkerInitDoneStep)

\* SpecWorker: the worker on its own, sent init, detect and dispose messages
\* in any order.
WorkerReceiveStep ==
  /\ \E msg \in {InitMsg, DisposeMsg, DetectMsg(0, 0, 0)} : workerReceive(msg)
  /\ TrackerFrame

NextWorker == WorkerReceiveStep \/ WorkerOnMessageStep \/ WorkerInitDoneStep

SpecWorker == Init /\ [][NextWorker]_vars

\* ------------------------------------------------------ a camera stream
CameraFrame == UNCHANGED <<attentionVars, filterVars, affineVars, gazeVars, viewVars, featureVars, pointVars, heldVars, trackerVars, useTrackerVars, overlayVars>>

CameraStartStep == cameraStart /\ CameraFrame

CameraStartResumeStep ==
  /\ \E i \in 1..Len(starts), ok \in BOOLEAN : cameraStartResume(i, ok)
  /\ CameraFrame

CameraStopStep == cameraStop /\ CameraFrame

CameraVisibilityStep == cameraVisibility /\ CameraFrame

CameraCallbackStep == cameraCallback /\ CameraFrame

CameraBitmapStep ==
  /\ \E ok \in BOOLEAN : cameraBitmap(ok)
  /\ CameraFrame

CameraOnFrameStep == cameraOnFrame /\ CameraFrame

CameraVideoFrameStep == cameraVideoFrame /\ CameraFrame

NextCamera ==
  \/ CameraStartStep \/ CameraStartResumeStep \/ CameraStopStep
  \/ CameraVisibilityStep \/ CameraCallbackStep \/ CameraBitmapStep
  \/ CameraOnFrameStep \/ CameraVideoFrameStep

SpecCamera == Init /\ [][NextCamera]_vars

\* ------------------------------------------------------------ useTracker
UseTrackerFrame == UNCHANGED <<attentionVars, filterVars, affineVars, gazeVars, viewVars, featureVars, pointVars, heldVars, trackerVars, cameraVars, overlayVars>>

TrackerStartStep == trackerStart /\ UseTrackerFrame

TrackerInitSettlesStep ==
  /\ \E i \in 1..Len(awaiting), ok \in BOOLEAN : trackerInitSettles(i, ok)
  /\ UseTrackerFrame

TrackerCameraSettlesStep ==
  /\ \E i \in 1..Len(awaiting), ok \in BOOLEAN : trackerCameraSettles(i, ok)
  /\ UseTrackerFrame

TrackerOnErrorStep ==
  /\ \E n \in 1..Len(instances) : trackerOnError(n)
  /\ UseTrackerFrame

TrackerStopStep == trackerStop /\ UseTrackerFrame

NextUseTracker ==
  \/ TrackerStartStep \/ TrackerInitSettlesStep \/ TrackerCameraSettlesStep
  \/ TrackerOnErrorStep \/ TrackerStopStep

SpecUseTracker == Init /\ [][NextUseTracker]_vars

\* ------------------------------------------------- the gaze grid overlay
OverlayFrame == UNCHANGED <<attentionVars, filterVars, affineVars, gazeVars, viewVars, featureVars, pointVars, heldVars, trackerVars, cameraVars, useTrackerVars>>

OverlayResultStep ==
  /\ \E pos \in OverlayPoints : overlayOnResult(pos)
  /\ OverlayFrame

OverlayTimeoutStep == overlayTimeout /\ OverlayFrame

OverlayTickStep == overlayTick /\ OverlayFrame

NextOverlay == OverlayResultStep \/ OverlayTimeoutStep \/ OverlayTickStep

SpecOverlay == Init /\ [][NextOverlay]_vars

TypeOK ==
  /\ state \in AttentionStates
  /\ raw.state \in AttentionStates
  /\ pendingState \in AttentionStates \cup {None}
  /\ totalMs >= 0

\* ------------------------------------------------------------------ claims
\* The step taken is a processResult call.
Processed == lastOp' = "processResult"

\* The timestamp of the observation just processed.
Now == lastTimestamp

\* The observation just processed carried no face.
NoFace(d) ==
  \/ d.faceCenter = Undefined
  \/ d.landmarks = Undefined
  \/ d.landmarks.len = 0

\* C1: at the observation where the committed state changes from attentive to
\* any other state, currentStreakMs is zero once it has been processed.
C1_StreakZeroOnLeavingAttentive ==
  [][(Processed /\ state = "attentive" /\ state' # "attentive")
       => currentStreakMs' = 0]_vars

\* C2: the committed state changes to c at an observation with timestamp t
\* only if c was the candidate at every observation from one with timestamp
\* <= t - 300 ms up to this one.
C2_CommitOnlyAfterDebounce ==
  [][(Processed /\ state' # state)
       => /\ candRun'.of = state'
          /\ candRun'.minTs <= Now' - DEBOUNCE_MS]_vars

C2_Witness ==
  /\ lastOp = "processResult"
  /\ state = "looking_away"
  /\ candRun.of = "looking_away"
  /\ pendingState = None
  /\ sessionStart > 0

\* C3: the committed state becomes drowsy only if every observation of a span
\* of at least 2000 ms ending here was classified drowsy; a closure shorter
\* than the hold is proposed as attentive.
C3_DrowsyOnlyAfterHold ==
  [][Processed
       => /\ (state' = "drowsy" /\ state # "drowsy")
               => /\ rawRun'.of = "drowsy"
                  /\ rawRun'.minTs <= Now' - DROWSY_HOLD_MS
          /\ (raw'.state = "drowsy" /\ Now' - rawRun'.minTs < DROWSY_HOLD_MS)
               => candRun'.of = "attentive"]_vars

C3_Witness ==
  /\ lastOp = "processResult"
  /\ state = "drowsy"
  /\ rawRun.of = "drowsy"

\* C4: an observation without a face is classified absent with
\* facePresent = false, and absent is the candidate, whatever the head pose
\* and the committed and pending states.
C4_NoFaceIsAbsent ==
  (lastOp = "processResult" /\ NoFace(data))
    => /\ raw.state = "absent"
       /\ raw.facePresent = FALSE
       /\ candRun.of = "absent"

C4_Witness ==
  /\ lastOp = "processResult"
  /\ data.faceCenter # Undefined
  /\ data.landmarks = LmEmpty
  /\ state = "attentive"
  /\ raw.state = "absent"

\* The yaw and pitch computeAttention is given: the filters' outputs, 0 without
\* a head pose.
SeenYaw == IF data.headPose = Undefined THEN 0 ELSE yawFilter.lastValue
SeenPitch == IF data.headPose = Undefined THEN 0 ELSE pitchFilter.lastValue

\* C5: with a face, looking_away exactly when |yaw| > 25 or |pitch| > 20,
\* otherwise drowsy exactly when EAR < 0.2, otherwise attentive; closed eyes
\* with an out-of-threshold pose give looking_away.
C5_ClassificationOrder ==
  (lastOp = "processResult" /\ ~NoFace(data))
    => LET away == \/ Abs(SeenYaw) > YAW_THRESHOLD * Scale
                   \/ Abs(SeenPitch) > PITCH_THRESHOLD * Scale
           closed == 5 * raw.eyeOpenness < Scale
       IN /\ raw.facePresent
          /\ raw.headYaw = SeenYaw /\ raw.headPitch = SeenPitch
          /\ (raw.state = "looking_away") <=> away
          /\ (raw.state = "drowsy") <=> (~away /\ closed)
          /\ (raw.state = "attentive") <=> (~away /\ ~closed)
          /\ (data.landmarks = LmClosed) => closed

C5_Witness ==
  /\ lastOp = "processResult"
  /\ data.faceCenter # Undefined
  /\ data.landmarks = LmClosed
  /\ data.headPose = Turned
  /\ raw.state = "looking_away"

\* C6: distractionCount grows by exactly 1 at an observation iff it commits a
\* transition from attentive to another state, and is unchanged at every other
\* observation.
C6_DistractionCount ==
  [][Processed
       => IF state = "attentive" /\ state' # "attentive"
          THEN distractionCount' = distractionCount + 1
          ELSE distractionCount' = distractionCount]_vars

C6_Witness ==
  /\ lastOp = "processResult"
  /\ distractionCount = 1
  /\ state = "absent"
  /\ pendingState = "looking_away"

\* The delta between the observation of this step and the one before it, when
\* it is accounted by the claim's rule: reset() has been called, an observation
\* was processed since, and 0 < dt < 1000.  0 otherwise.
ClaimedDt ==
  LET dt == lastTimestamp' - lastTimestamp IN
  IF sessionStart > 0 /\ candRun.of # None /\ dt > 0 /\ dt < 1000 THEN dt ELSE 0

\* C7: totalMs grows by dt exactly when 0 < dt < 1000 and an observation was
\* processed since the last reset, attentiveMs by the same dt only when the
\* committed state after the observation is attentive; zero, negative and
\* >= 1000 ms deltas add nothing.
C7_Accounting ==
  [][Processed
       => /\ totalMs' = totalMs + ClaimedDt
          /\ attentiveMs' = attentiveMs + (IF state' = "attentive" THEN ClaimedDt ELSE 0)]_vars

C7_Witness ==
  /\ lastOp = "processResult"
  /\ attentiveMs > 0
  /\ totalMs > attentiveMs

\* C8: after reset() the committed state is absent, the four counters are 0,
\* nothing is pending, the drowsy hold and the last timestamp are cleared, and
\* both filters pass the next yaw and pitch through.
C8_Reset ==
  [][/\ lastOp' = "reset"
          => /\ state' = "absent"
             /\ attentiveMs' = 0 /\ totalMs' = 0
             /\ distractionCount' = 0 /\ currentStreakMs' = 0
             /\ pendingState' = None
             /\ eyeClosedSince' = 0
             /\ lastTimestamp' = 0
             /\ yawFilter'.lastTime < 0 /\ pitchFilter'.lastTime < 0
     /\ (lastOp = "reset" /\ Processed /\ data'.headPose # Undefined)
          => /\ yawFilter'.lastValue = data'.headPose.yaw
             /\ pitchFilter'.lastValue = data'.headPose.pitch
             /\ (~NoFace(data')
                   => /\ raw'.headYaw = data'.headPose.yaw
                      /\ raw'.headPitch = data'.headPose.pitch)]_vars

C8_Witness ==
  /\ lastOp = "reset"
  /\ data # Undefined
  /\ data.headPose = Turned
  /\ raw.state = "looking_away"
  /\ yawFilter.lastTime < 0

\* C9: when every observation from some one on proposes the same candidate c
\* with strictly increasing timestamps, the committed state is c from the
\* first observation at least 300 ms after the first of them.
C9_SustainedChangeCommits ==
  (lastOp = "processResult" /\ candRun.mono /\ Now - candRun.minTs >= DEBOUNCE_MS)
    => state = candRun.of

C9_Witness ==
  /\ lastOp = "processResult"
  /\ candRun.mono
  /\ Now - candRun.minTs >= DEBOUNCE_MS
  /\ candRun.of = "looking_away"
  /\ state = "looking_away"
  /\ distractionCount = 1

\* C10: currentStreakMs grows only at observations after which the committed
\* state is attentive, by the accounted delta; a commit into attentive
\* restarts it from zero before the delta is added; otherwise it is unchanged.
C10_Streak ==
  [][Processed
       => LET dt == totalMs' - totalMs IN
          currentStreakMs' =
            IF state' = "attentive"
            THEN (IF state # "attentive" THEN 0 ELSE currentStreakMs) + dt
            ELSE currentStreakMs]_vars

C10_Witness ==
  /\ lastOp = "processResult"
  /\ state = "attentive"
  /\ distractionCount >= 1
  /\ currentStreakMs > 0
  /\ currentStreakMs < attentiveMs

\* C11: at every observation, duplicate and out-of-order timestamps included,
\* attentiveMs, totalMs and distractionCount do not decrease; a step at which
\* one of them decreases is a reset(), and it leaves all three at zero.
C11_CountersMonotone ==
  [][/\ Processed
          => /\ attentiveMs' >= attentiveMs
             /\ totalMs' >= totalMs
             /\ distractionCount' >= distractionCount
     /\ (\/ attentiveMs' < attentiveMs
         \/ totalMs' < totalMs
         \/ distractionCount' < distractionCount)
          => /\ lastOp' = "reset"
             /\ attentiveMs' = 0 /\ totalMs' = 0 /\ distractionCount' = 0]_vars

\* counters above zero after an observation whose timestamp did not advance
C11_Witness ==
  /\ lastOp = "processResult"
  /\ ~candRun.mono
  /\ attentiveMs > 0
  /\ totalMs > attentiveMs
  /\ distractionCount >= 1

\* C12: an observation without a face clears eyeClosedSince, and drowsy is the
\* candidate only when every observation since the last one that was not
\* classified drowsy (an absence among them) had closed eyes, the first of
\* them at least 2000 ms ago.
C12_AbsenceResetsDrowsyHold ==
  [][Processed
       => /\ NoFace(data') => eyeClosedSince' = 0
          /\ candRun'.of = "drowsy"
               => /\ rawRun'.of = "drowsy"
                  /\ Now' - rawRun'.minTs >= DROWSY_HOLD_MS]_vars

\* drowsy is proposed while absent is still the committed state of a session
\* that was attentive before: the absence came first, the closure after it
C12_Witness ==
  /\ lastOp = "processResult"
  /\ candRun.of = "drowsy"
  /\ state = "absent"
  /\ distractionCount >= 1

\* C13: the first filter() call after creation, and the first after a
\* reset() whatever was filtered before it, returns its input and leaves the
\* filter with that input as lastValue and lastDx = 0.
C13_FirstCallPassthrough ==
  [][(oneEuroCall'.op = "filter" /\ oneEuroCall.op \in {"create", "reset"})
       => /\ oneEuroCall'.returned = oneEuroCall'.value
          /\ oneEuro'.lastValue = oneEuroCall'.value
          /\ oneEuro'.lastDx = 0]_vars

\* the first call after the reset of a filter that held a value
C13_Witness ==
  /\ oneEuroCall.op = "filter"
  /\ oneEuroRun.calls = 1
  /\ oneEuroRun.dirty
  /\ oneEuroCall.returned = 10 * Scale
  /\ oneEuro.lastValue = 10 * Scale

\* C14: a filter() call whose timestamp is not later than that of the last
\* accepted call returns lastValue, whatever its input, and leaves lastTime,
\* lastValue and lastDx as they were.
C14_StaleTimestamp ==
  [][(/\ oneEuroCall'.op = "filter"
      /\ oneEuroRun.calls > 0
      /\ oneEuroCall'.timestamp <= oneEuroRun.lastTs)
       => /\ oneEuroCall'.returned = oneEuro.lastValue
          /\ oneEuro' = oneEuro]_vars

\* a call with an earlier timestamp and another value than the filter holds
C14_Witness ==
  /\ oneEuroCall.op = "filter"
  /\ oneEuroCall.timestamp < oneEuro.lastTime
  /\ oneEuroCall.value # oneEuro.lastValue
  /\ oneEuroCall.returned = oneEuro.lastValue
  /\ oneEuro.lastDx # 0

Collinear(samples) ==
  \A i, j, k \in 1..Len(samples) :
    (samples[j].gaze.x - samples[i].gaze.x) * (samples[k].gaze.y - samples[i].gaze.y)
      = (samples[j].gaze.y - samples[i].gaze.y) * (samples[k].gaze.x - samples[i].gaze.x)

\* C16: computeGazeTransform never returns a transform fitted from fewer
\* samples than the featureDim + 1 parameters it solves for (the least the
\* documented floor max(featureDim + 1, 20) asks).
C16_NullBelowParams ==
  gazeFit.called /\ gazeFit.result # Null
    => Len(gazeFit.samples) >= gazeFit.result.numFeatures + 1

ConstantFeature(samples) ==
  \E i \in 1..Len(samples[1].features) :
    \A k \in 1..Len(samples) : samples[k].features[i] = samples[1].features[i]

\* C18: when the x-output or the y-output system meets a pivot below 1e-12,
\* computeGazeTransform returns null, never a transform with one axis solved;
\* with lambda = 0 and a feature that is constant across the samples that is
\* what happens.
C18_SingularIsNull ==
  gazeFit.called =>
    /\ (gazeFit.xCoeffs = Null \/ gazeFit.yCoeffs = Null => gazeFit.result = Null)
    /\ (/\ gazeFit.lambda = 0
        /\ gazeFit.xCoeffs # Undefined
        /\ ConstantFeature(gazeFit.samples)
        => gazeFit.xCoeffs = Null /\ gazeFit.yCoeffs = Null /\ gazeFit.result = Null)

\* lambda = 0, enough samples, the second feature constant: the fit is null.
C18_Witness ==
  /\ gazeFit.called
  /\ gazeFit.lambda = 0
  /\ Len(gazeFit.samples) >= 3
  /\ Len(gazeFit.samples[1].features) = 2
  /\ \A k \in 1..Len(gazeFit.samples) : gazeFit.samples[k].features[2] = 1
  /\ \E k \in 1..Len(gazeFit.samples) :
       gazeFit.samples[k].features[1] # gazeFit.samples[1].features[1]
  /\ gazeFit.xCoeffs = Null
  /\ gazeFit.result = Null

\* C20: applyGazeTransform with a feature vector whose length differs from
\* t.numFeatures is reported as an error and never returns a screen point.
C20_LengthMismatchIsError ==
  gazeApply.called /\ Len(gazeApply.features) # gazeFit.result.numFeatures
    => gazeApply.outcome = "error"

C21_ShortLandmarksDefaults ==
  extracted.called /\ extracted.landmarks.len < MIN_LANDMARKS =>
    /\ extracted.gazeRatio = Pt(0, 0)
    /\ extracted.gazeFeatures =
         [leftGaze |-> Pt(0, 0), rightGaze |-> Pt(0, 0), headYaw |-> 0, headPitch |-> 0]
    /\ extracted.ear = Scale

\* A mesh without its iris entries has been given: 468 landmarks, defaults.
C21_Witness ==
  /\ extracted.called
  /\ extracted.landmarks.len = LEFT_IRIS_CENTER
  /\ NOSE_TIP \in DOMAIN extracted.landmarks.pt
  /\ extracted.gazeRatio = Pt(0, 0)
  /\ extracted.ear = Scale

\* The screen point of every sample is the grid's affine image of its gaze point.
ExactlyAffine(samples) ==
  \A k \in 1..Len(samples) : samples[k] = GridSample(samples[k].gaze.x, samples[k].gaze.y)

ConstantAt(samples, i) ==
  \A k \in 1..Len(samples) : samples[k].features[i] = samples[1].features[i]

C24_Phase2Samples ==
  [][phase = "phase2" =>
       /\ Len(viewSamples') >= Len(viewSamples)
       /\ SubSeq(viewSamples', 1, Len(viewSamples)) = viewSamples
       /\ hitHistory' = Append(hitHistory, FALSE) =>
            /\ viewSamples' =
                 viewSamples \o [k \in 1..Len(frameBufferAtCallback') |->
                                  [features |-> frameBufferAtCallback'[k],
                                   screen |-> ScreenPos(validationPoint)]]
            /\ Len(viewSamples') > Len(viewSamples)
            /\ currentTransform' = computeGazeTransform(viewSamples', DEFAULT_LAMBDA)
       /\ hitHistory' = Append(hitHistory, TRUE) =>
            /\ viewSamples' = viewSamples
            /\ currentTransform' = currentTransform]_vars

\* After nine grid samples a round has missed: a tenth sample, taken at the
\* validation point of that round, and a hit after it.
C24_Witness ==
  /\ phase = "phase2"
  /\ Len(viewSamples) = Len(GRID) + 1
  /\ viewSamples[Len(GRID) + 1].screen \in {ScreenPos(pt) : pt \in ValidationPoints}
  /\ hitHistory = <<FALSE, TRUE>>
  /\ lastResult = "hit"
  /\ currentTransform = computeGazeTransform(viewSamples, DEFAULT_LAMBDA)

C26_AxesIndependent ==
  /\ pointRun.sameX => pointA.x = pointB.x
  /\ pointRun.sameY => pointA.y = pointB.y
  /\ pointCall.op = "filter" =>
       /\ pointRun.sameX => pointCall.outA.x = pointCall.outB.x
       /\ pointRun.sameY => pointCall.outA.y = pointCall.outB.y
       /\ pointCall.afterReset => pointCall.outA = pointCall.a /\ pointCall.outB = pointCall.b

\* Two calls with x = 0 then 10.0 in both runs and different y in each: the x
\* returned is the same smoothed value while the y returned differ.
C26_Witness ==
  /\ pointCall.op = "filter"
  /\ pointRun.sameX /\ ~pointRun.sameY
  /\ pointCall.timestamp > 0
  /\ pointCall.a.x = 10 * Scale
  /\ pointCall.outA.x > 0 /\ pointCall.outA.x < 10 * Scale
  /\ pointCall.outA.x = pointCall.outB.x
  /\ pointCall.outA.y # pointCall.outB.y

\* The entry (i, j) of the product of the rows' transpose with the rows.
Gram(rows, i, j) ==
  RoundDiv(Sum([k \in 1..Len(rows) |-> rows[k][i] * rows[k][j]]), FeatureScale)

\* C27: lambda is added to the diagonal entry of every feature and never to
\* the diagonal entry of the bias (the last index), whatever the feature count.
C27_RidgeSkipsBias ==
  gazeFit.called /\ gazeFit.xCoeffs # Undefined =>
    LET numFeatures == Len(gazeFit.samples[1].features)
        rows == RowsOf(gazeFit.samples)
        AtA == buildAtA(rows, gazeFit.samples, gazeFit.lambda, numFeatures,
                        numFeatures + 1).AtA
    IN /\ \A i \in 1..numFeatures :
            AtA[i][i] = Gram(rows, i, i) + gazeFit.lambda * FeatureScale
       /\ AtA[numFeatures + 1][numFeatures + 1] = Len(gazeFit.samples) * FeatureScale
       /\ \A i, j \in 1..(numFeatures + 1) : i # j => AtA[i][j] = Gram(rows, i, j)

\* A fit with the default lambda from samples of as many features as the
\* sample floor.
C27_Witness ==
  /\ gazeFit.called
  /\ gazeFit.lambda = DEFAULT_LAMBDA
  /\ gazeFit.result # Null
  /\ gazeFit.result.numFeatures = SAMPLE_FLOOR
  /\ Len(gazeFit.samples) = SAMPLE_FLOOR + 1

C29_CountersOrdered ==
  /\ 0 <= currentStreakMs
  /\ currentStreakMs <= attentiveMs
  /\ attentiveMs <= totalMs
  /\ attentionRate.den > 0
  /\ 0 <= attentionRate.num
  /\ attentionRate.num <= attentionRate.den

\* After attention was lost and regained: a streak shorter than the
\* attentive time, which is shorter than the total time.
C29_Witness ==
  /\ lastOp = "processResult"
  /\ state = "attentive"
  /\ 0 < currentStreakMs
  /\ currentStreakMs < attentiveMs
  /\ attentiveMs < totalMs

\* C30: for every observation sequence since the last reset, duplicate and
\* out-of-order timestamps included, totalMs is at most the greatest minus the
\* least observation timestamp seen since that reset.
C30_TotalWithinSpan ==
  seenTs.any => totalMs <= seenTs.max - seenTs.min

\* The detect requests the worker still holds or has answered without the
\* client having handled the answer.
Outstanding ==
  Len(SelectSeq(toWorker, LAMBDA m : m.type = "detect"))
  + Len(SelectSeq(toClient, LAMBDA m : m.type = "result" \/ (m.type = "error" /\ m.message # "init failed")))

\* C31: while the worker answers every request, a frame held as pending is
\* followed by a later post to the worker: the client does not stay busy
\* forever after an error reply to a detect request.
C31_PendingIsPosted ==
  \A n \in 0..MaxFrames : (pendingFrame # 0 /\ nextId = n) ~> (nextId > n)

\* The frames whose fate is to be held as pending.
PendingFrames == {f \in 1..Len(frameLog) : frameLog[f].fate = "pending"}

\* C32: at most one detect request is outstanding at the worker and at most
\* one frame is held as pending, a frame is held only while a request is
\* outstanding, and every frame given to detect() is the held one, or posted,
\* or closed by a newer frame or by dispose().
C32_OneRequestOnePending ==
  /\ Outstanding <= 1
  /\ Cardinality(PendingFrames) <= 1
  /\ PendingFrames = (IF pendingFrame # 0 THEN {pendingFrame} ELSE {})
  /\ (pendingFrame # 0 => Outstanding = 1)
  /\ \A f \in 1..Len(frameLog) :
       frameLog[f].fate \in {"pending", "posted", "closed by detect", "closed by dispose"}

\* C33: with detect() called with timestamps that never go back, no frame is
\* posted to the worker after a frame with a newer timestamp.
C33_PostedInOrder ==
  \A i, j \in 1..Len(postedLog) : i < j => postedLog[i] <= postedLog[j]

\* C34: a detect message handled after a dispose message, and before an init
\* message later than that dispose has completed, is answered with the error
\* 'Not initialized' and never with a result.
C34_DisposedWorkerRefuses ==
  workerLog.detectAfterDispose => workerLog.detectReply = NOT_INITIALIZED

\* C35: at most one frame-loop iteration is scheduled or running at any time,
\* over every sequence of start(), stop() and page hide and show.
C35_OneFrameLoop == scheduled + bitmaps <= 1

\* C36: no frame callback is invoked after stop() has returned, nor while the
\* page is hidden, also when the bitmap creation began before.
C36_NoFrameAfterStop ==
  cameraLog.delivered => ~cameraLog.afterStop /\ ~cameraLog.whileHidden

\* C37: after stop() has returned and until start() is called again the
\* status is idle and no camera and no tracker is alive, also when stop() was
\* called while a start() was awaiting.
C37_StoppedStaysIdle ==
  trackerLog =>
    /\ status = "idle"
    /\ camera = 0 /\ tracker = 0
    /\ \A n \in 1..Len(instances) :
         instances[n].camera # "live" /\ ~instances[n].worker

\* C38: a cell becomes the active cell only after it has been the pending
\* cell for the dwell time, with a zone event; and a cell other than the
\* active one on which the results keep falling is active, its zone event
\* emitted, by the time the dwell time is over, whatever was visited before.
C38_DwellActivates ==
  [][/\ (activeRow' # activeRow \/ activeCol' # activeCol =>
           /\ activeRow' = pendingRow /\ activeCol' = pendingCol
           /\ overlayLog.now - overlayLog.pendingSince >= DWELL_MS
           /\ overlayLog'.zones = overlayLog.zones + 1)
     /\ (overlayLog'.runRow # -1
           /\ (overlayLog'.runRow # activeRow' \/ overlayLog'.runCol # activeCol')
           => overlayLog'.now - overlayLog'.runSince <= DWELL_MS)]_vars

\* samples.value as enterPhase2 finds it in a step of the ninth grid point
NinthPointSamples ==
  viewSamples \o SamplesOf(frameBufferAtCallback', ScreenPos(GRID[Len(GRID)]))

NinthPointCallback == timer = "startPhase1Point" /\ currentIndex + 1 >= Len(GRID)

\* C39: the session is in phase 2 or done only with a fitted transform;
\* setTransform is called only with the fitted, non-null transform; phase 2 is
\* entered only by a step whose fit succeeded; and when the fit after the
\* ninth grid point fails the step ends in the intro phase with the sample
\* list emptied and no callback pending.
C39_Phase2NeedsTransform ==
  /\ [](phase \in {"phase2", "done"} => currentTransform # Null)
  /\ [](transform # Null => phase = "done" /\ transform = currentTransform)
  /\ [][/\ transform' # transform => transform' # Null /\ transform' = currentTransform'
        /\ (phase # "phase2" /\ phase' = "phase2") =>
             /\ NinthPointCallback
             /\ computeGazeTransform(NinthPointSamples, DEFAULT_LAMBDA) # Null
        /\ (NinthPointCallback /\ computeGazeTransform(NinthPointSamples, DEFAULT_LAMBDA) = Null) =>
             /\ phase' = "intro"
             /\ viewSamples' = <<>>
             /\ currentTransform' = Null
             /\ timer' = None]_vars

\* the fit after the ninth grid point has just failed
C39_Witness ==
  /\ phase = "intro"
  /\ currentIndex = Len(GRID)
  /\ viewSamples = <<>>
  /\ currentTransform = Null
  /\ timer = None

====
